---------------------------- MODULE Spec2Model ----------------------------
(***************************************************************************)
(* A model of the incremental UTF-8 decoder of rust-utf8 (src/lib.rs):     *)
(* the byte classifier, IncompleteSequence::complete, Decoder::decode,     *)
(* LossyDecoder::feed and its Drop, and the single-chunk lossy decoding    *)
(* of the Decoder's documentation; of decode and                           *)
(* IncompleteChar::try_complete of src/based_on_std.rs; of                 *)
(* BufReadDecoder::next of src/src/read.rs; and of utf8error_resume_from   *)
(* of src/polyfill.rs.  Bytes are the naturals 0..255, a slice is a        *)
(* sequence of bytes, a str is the sequence of its UTF-8 bytes.            *)
(***************************************************************************)
EXTENDS Naturals, Sequences, FiniteSets, TLC

VARIABLES
    decoder,    \* Decoder.incomplete_sequence: [len, first, second, third]
    stream,     \* every byte handed to the decoder so far, in order
    out,        \* the text pushed to the callback / appended to the String
    repl,       \* how many times feed pushed REPLACEMENT_CHARACTER
    dropped,    \* whether the LossyDecoder was dropped
    used,       \* bytes handed to Decoder::decode in new chunks so far
    buf_read_decoder,   \* a BufReadDecoder: buf_read, bytes_consumed, incomplete
    last        \* what the most recent call was given and what it returned

vars == <<decoder, stream, out, repl, dropped, used, buf_read_decoder, last>>

---------------------------------------------------------------------------
(* Bounds of the exploration.                                              *)

\* The longest byte stream fed to a LossyDecoder in every partition.
MaxLen == 4

\* The most bytes handed to one Decoder in new chunks.
MaxBytes == 4

\* The longest input of the single-chunk lossy decoding.
MaxInput == 4

\* The most bytes fed to a LossyDecoder whose feed calls are recorded.
MaxFed == 3

\* The most bytes given to based_on_std::decode and try_complete together.
MaxStd == 4

\* One byte of every class the classifier tells apart: ASCII, the three
\* continuation ranges 80..8F, 90..9F, A0..BF, a byte of width 0 that is not
\* a continuation byte, a 2-byte lead, the 3-byte leads E0, E1..EC/EE..EF, ED
\* and the 4-byte leads F0, F1..F3, F4.
ByteSamples ==
    { \h20, \h80, \h90, \hA0, \hC0, \hC2, \hE0, \hE6, \hED, \hF0, \hF1, \hF4 }

\* The bytes of the streams fed chunk by chunk in every partition: ASCII, a
\* continuation byte that E0 and F0 refuse as second byte (80), one that ED
\* and F4 refuse (A0), a 2-byte lead, the 3-byte leads E0, E6, ED and the
\* 4-byte leads F0, F4.  80 and A0 also stand for the bytes of width 0; the
\* streams of the tests add the leads F1 and F5, C0 and FF.
StreamSamples ==
    { \h20, \h80, \hA0, \hC2, \hE0, \hE6, \hED, \hF0, \hF4 }

\* The bytes of the new chunks given to a Decoder call by call: as above
\* without E6, which the byte strings of the tests add.
DecodeSamples ==
    { \h20, \h80, \hA0, \hC2, \hE0, \hED, \hF0, \hF4 }

\* More bytes below 0x80, the least and the greatest among them, for the
\* chunks of ASCII text given to a new Decoder.
AsciiSamples ==
    { \h00, \h41, \h7F }

Suffix(input, position) == SubSeq(input, position + 1, Len(input))
Prefix(input, position) == SubSeq(input, 1, position)
IsPrefix(p, t) == Len(p) <= Len(t) /\ Prefix(t, Len(p)) = p

\* `let v = value; body(v)`: the value is computed once, then bound.
Bind(value, body(_)) == CHOOSE r \in { body(v) : v \in {value} } : TRUE

---------------------------------------------------------------------------
(* The byte classifier.                                                    *)

REPLACEMENT_CHARACTER == << \hEF, \hBF, \hBD >>

UTF8_CHAR_WIDTH ==
    << 1,1,1,1,1,1,1,1,1,1,1,1,1,1,1,1,
       1,1,1,1,1,1,1,1,1,1,1,1,1,1,1,1,
       1,1,1,1,1,1,1,1,1,1,1,1,1,1,1,1,
       1,1,1,1,1,1,1,1,1,1,1,1,1,1,1,1,
       1,1,1,1,1,1,1,1,1,1,1,1,1,1,1,1,
       1,1,1,1,1,1,1,1,1,1,1,1,1,1,1,1,
       1,1,1,1,1,1,1,1,1,1,1,1,1,1,1,1,
       1,1,1,1,1,1,1,1,1,1,1,1,1,1,1,1,
       0,0,0,0,0,0,0,0,0,0,0,0,0,0,0,0,
       0,0,0,0,0,0,0,0,0,0,0,0,0,0,0,0,
       0,0,0,0,0,0,0,0,0,0,0,0,0,0,0,0,
       0,0,0,0,0,0,0,0,0,0,0,0,0,0,0,0,
       0,0,2,2,2,2,2,2,2,2,2,2,2,2,2,2,
       2,2,2,2,2,2,2,2,2,2,2,2,2,2,2,2,
       3,3,3,3,3,3,3,3,3,3,3,3,3,3,3,3,
       4,4,4,4,4,0,0,0,0,0,0,0,0,0,0,0 >>

width(first_byte) == UTF8_CHAR_WIDTH[first_byte + 1]

\* A mutant of is_continuation_byte: the mask keeps the top bit only.
is_continuation_byte_top_bit(b) == b - (b % 128) = 128

\* b & 0b1100_0000 == 0b1000_0000
is_continuation_byte(b) == b - (b % 64) = 128

\* A mutant of valid_three_bytes_sequence_prefix: surrogates not excluded.
valid_three_bytes_sequence_prefix_surrogates(first, second) ==
    \/ first = \hE0 /\ second \in \hA0 .. \hBF
    \/ first \in \hE1 .. \hEF /\ second \in \h80 .. \hBF

valid_three_bytes_sequence_prefix(first, second) ==
    \/ first = \hE0 /\ second \in \hA0 .. \hBF
    \/ first \in \hE1 .. \hEC /\ second \in \h80 .. \hBF
    \/ first = \hED /\ second \in \h80 .. \h9F
    \/ first \in \hEE .. \hEF /\ second \in \h80 .. \hBF

\* A mutant of valid_four_bytes_sequence_prefix: F4 not capped at 8F.
valid_four_bytes_sequence_prefix_no_cap(first, second) ==
    \/ first = \hF0 /\ second \in \h90 .. \hBF
    \/ first \in \hF1 .. \hF4 /\ second \in \h80 .. \hBF

valid_four_bytes_sequence_prefix(first, second) ==
    \/ first = \hF0 /\ second \in \h90 .. \hBF
    \/ first \in \hF1 .. \hF3 /\ second \in \h80 .. \hBF
    \/ first = \hF4 /\ second \in \h80 .. \h8F

\* A mutant of valid_second: any continuation byte passes as second byte.
valid_second_any_continuation(w, first, second) == is_continuation_byte(second)

\* The match on width that checks a second byte (decode and complete).
valid_second(w, first, second) ==
    CASE w = 2 -> is_continuation_byte(second)
      [] w = 3 -> valid_three_bytes_sequence_prefix(first, second)
      [] OTHER -> valid_four_bytes_sequence_prefix(first, second)

---------------------------------------------------------------------------
(* IncompleteSequence and IncompleteSequence::complete.                    *)

NewDecoder == [len |-> 0, first |-> 0, second |-> 0, third |-> 0]

InlineString_empty == <<>>

\* The bytes of a pending sequence: first..(len).
PendingBytes(self) == Prefix(<<self.first, self.second, self.third>>, self.len)

\* A mutant of CompleteIncomplete: the pending bytes are forgotten.
CompleteIncomplete_forget(self, position) ==
    [ ok |-> FALSE, seq |-> [self EXCEPT !.len = 0],
      ch |-> <<>>, position |-> position,
      kind |-> "Incomplete", panic |-> FALSE ]

\* A mutant of CompleteIncomplete: len does not grow by the bytes that passed.
CompleteIncomplete_same_len(self, position) ==
    [ ok |-> FALSE, seq |-> self,
      ch |-> <<>>, position |-> position,
      kind |-> "Incomplete", panic |-> FALSE ]

\* next!() of complete with the input exhausted: keep the bytes that passed.
CompleteIncomplete(self, position) ==
    LET new_len == (self.len + position) % 256
    IN  [ ok |-> FALSE, seq |-> [self EXCEPT !.len = new_len],
          ch |-> InlineString_empty, position |-> position,
          kind |-> "Incomplete", panic |-> ~(new_len < 4) ]

\* A mutant of CompleteError: the failing byte is skipped too.
CompleteError_swallow(self, position) ==
    [ ok |-> FALSE, seq |-> [self EXCEPT !.len = 0],
      ch |-> <<>>, position |-> position + 1,
      kind |-> "Error", panic |-> FALSE ]

\* A mutant of CompleteError: the pending sequence is not discarded.
CompleteError_keep(self, position) ==
    [ ok |-> FALSE, seq |-> self,
      ch |-> <<>>, position |-> position,
      kind |-> "Error", panic |-> FALSE ]

\* check!() of complete failing: discard the pending sequence.
CompleteError(self, position) ==
    [ ok |-> FALSE, seq |-> [self EXCEPT !.len = 0],
      ch |-> InlineString_empty, position |-> position,
      kind |-> "Error", panic |-> FALSE ]

\* A mutant of CompleteFinish: the fourth byte is left out of the buffer.
CompleteFinish_no_fourth(self, fourth, position, w) ==
    [ ok |-> TRUE, seq |-> [self EXCEPT !.len = 0],
      ch |-> SubSeq(<<self.first, self.second, self.third, 0>>, 1, w),
      position |-> position, kind |-> "Ok", panic |-> FALSE ]

\* A mutant of CompleteFinish: the whole input is returned as the rest.
CompleteFinish_whole_input(self, fourth, position, w) ==
    [ ok |-> TRUE, seq |-> [self EXCEPT !.len = 0],
      ch |-> SubSeq(<<self.first, self.second, self.third, fourth>>, 1, w),
      position |-> 0, kind |-> "Ok", panic |-> FALSE ]

\* The end of complete: the code point is whole.
CompleteFinish(self, fourth, position, w) ==
    [ ok |-> TRUE, seq |-> [self EXCEPT !.len = 0],
      ch |-> Prefix(<<self.first, self.second, self.third, fourth>>, w),
      position |-> position, kind |-> "Ok", panic |-> FALSE ]

CompleteFourth(self, input, position, w) ==
    IF w > 3
    THEN IF position >= Len(input)
         THEN CompleteIncomplete(self, position)
         ELSE LET fourth == input[position + 1]
              IN  IF ~is_continuation_byte(fourth)
                  THEN CompleteError(self, position)
                  ELSE CompleteFinish(self, fourth, position + 1, w)
    ELSE CompleteFinish(self, 0, position, w)

CompleteThird(self, input, position, w) ==
    IF w > 2 /\ self.len < 3
    THEN IF position >= Len(input)
         THEN CompleteIncomplete(self, position)
         ELSE LET s3 == [self EXCEPT !.third = input[position + 1]]
              IN  IF ~is_continuation_byte(s3.third)
                  THEN CompleteError(s3, position)
                  ELSE CompleteFourth(s3, input, position + 1, w)
    ELSE IF w > 2
         THEN CompleteFourth(self, input, position, w)
         ELSE CompleteFinish(self, 0, position, w)

CompleteSecond(self, input, w) ==
    IF self.len < 2
    THEN IF 0 >= Len(input)
         THEN CompleteIncomplete(self, 0)
         ELSE LET s2 == [self EXCEPT !.second = input[1]]
              IN  IF ~valid_second(w, s2.first, s2.second)
                  THEN CompleteError(s2, 0)
                  ELSE CompleteThird(s2, input, 1, w)
    ELSE CompleteThird(self, input, 0, w)

\* Returns ok (Ok(tuple) or Err(result)), the sequence as the call leaves it,
\* the code point put back together, how many bytes of input were consumed
\* (the rest of the input, or remaining_input_after_error, starts there), the
\* kind of Result, and whether a debug_assert failed.
complete(self, input) ==
    IF self.len = 0
    THEN [ ok |-> TRUE, seq |-> self, ch |-> InlineString_empty,
           position |-> 0, kind |-> "Ok", panic |-> FALSE ]
    ELSE LET w == width(self.first)
             r == CompleteSecond(self, input, w)
         IN  [r EXCEPT !.panic = @ \/ ~(0 < self.len /\ self.len < w /\ w <= 4)
                                   \/ (self.len < 2 /\ Len(input) > 0
                                         /\ w \notin {2, 3, 4})]

---------------------------------------------------------------------------
(* Decoder::decode.                                                        *)

\* A mutant of ScanIncomplete: the stored length counts one byte too many.
ScanIncomplete_one_more(position, current_sequence_len, first, second, third) ==
    [ position |-> position, kind |-> "Incomplete", skip |-> 0,
      seq |-> [len |-> current_sequence_len + 1, first |-> first,
               second |-> second, third |-> third] ]

\* debug_assert!(width == 4) of decode failing in the default arm of the
\* match on width.
ScanPanic(position) ==
    [ position |-> position, kind |-> "Panic", skip |-> 0,
      seq |-> [len |-> 0, first |-> 0, second |-> 0, third |-> 0] ]

\* next!() of decode with the input exhausted: store the sequence so far.
ScanIncomplete(position, current_sequence_len, first, second, third) ==
    [ position |-> position, kind |-> "Incomplete", skip |-> 0,
      seq |-> [len |-> current_sequence_len, first |-> first,
               second |-> second, third |-> third] ]

\* A mutant of ScanError: the remaining input begins at the lead byte.
ScanError_skip_none(position, current_sequence_len) ==
    [ position |-> position, kind |-> "Error", skip |-> 0,
      seq |-> [len |-> 0, first |-> 0, second |-> 0, third |-> 0] ]

\* A mutant of ScanError: decoding always resumes right after the lead byte.
ScanError_after_lead(position, current_sequence_len) ==
    [ position |-> position, kind |-> "Error", skip |-> 1,
      seq |-> [len |-> 0, first |-> 0, second |-> 0, third |-> 0] ]

\* check!() of decode failing: the remaining input starts at
\* position + current_sequence_len.
ScanError(position, current_sequence_len) ==
    [ position |-> position, kind |-> "Error",
      skip |-> current_sequence_len, seq |-> NewDecoder ]

\* A mutant of is_ascii: 7F is taken for a lead byte.
is_ascii_but_del(first) == first < 127

\* ASCII characters are always valid: if first < 128.
is_ascii(first) == first < 128

\* The loop of decode from `position`: the end of the valid prefix, the kind
\* of Result, the length of the skipped invalid span and, for Incomplete, the
\* sequence stored.
RECURSIVE scan(_, _)
scan(input, position) ==
    IF position >= Len(input)
    THEN [ position |-> position, kind |-> "Ok", skip |-> 0, seq |-> NewDecoder ]
    ELSE
    LET first == input[position + 1] IN
    IF is_ascii(first) THEN scan(input, position + 1)
    ELSE
    LET w == UTF8_CHAR_WIDTH[first + 1] IN
    IF ~(w # 0) THEN ScanError(position, 1)
    ELSE IF position + 1 >= Len(input)
    THEN ScanIncomplete(position, 1, first, 0, 0)
    ELSE
    LET second == input[position + 2] IN
    IF w \notin {2, 3, 4} THEN ScanPanic(position)
    ELSE IF ~valid_second(w, first, second) THEN ScanError(position, 1)
    ELSE IF ~(w > 2) THEN scan(input, position + w)
    ELSE IF position + 2 >= Len(input)
    THEN ScanIncomplete(position, 2, first, second, 0)
    ELSE
    LET third == input[position + 3] IN
    IF ~is_continuation_byte(third) THEN ScanError(position, 2)
    ELSE IF ~(w > 3) THEN scan(input, position + w)
    ELSE IF position + 3 >= Len(input)
    THEN ScanIncomplete(position, 3, first, second, third)
    ELSE
    LET fourth == input[position + 4] IN
    IF ~is_continuation_byte(fourth) THEN ScanError(position, 3)
    ELSE scan(input, position + w)

\* The tuple decode returns, with the places of its slices in input_chunk:
\*   dec        the incomplete_sequence after the call
\*   ch         the InlineString
\*   consumed   bytes of input_chunk consumed by complete
\*   s          the valid prefix, which starts at offset `consumed`
\*   kind       Ok, Incomplete or Error
\*   skip       the length of the invalid span skipped after s
\*   rem_at     the offset of remaining_input_after_error in input_chunk
\*   remaining  remaining_input_after_error (empty unless Error)
\*   panic      a debug_assert failed or a slice index was out of bounds
decode(self, input_chunk) ==
    Bind(complete(self, input_chunk), LAMBDA c :
    IF ~c.ok
    THEN [ dec |-> c.seq, ch |-> InlineString_empty, consumed |-> c.position,
           s |-> <<>>, kind |-> c.kind, skip |-> 0,
           rem_at |-> IF c.kind = "Error" THEN c.position ELSE Len(input_chunk),
           remaining |-> IF c.kind = "Error"
                         THEN Suffix(input_chunk, c.position) ELSE <<>>,
           panic |-> c.panic \/ c.position > Len(input_chunk) ]
    ELSE
    Bind(Suffix(input_chunk, c.position), LAMBDA input :
    Bind(scan(input, 0), LAMBDA r :
    LET rem_at == IF r.kind = "Error"
                  THEN c.position + r.position + r.skip ELSE Len(input_chunk)
    IN  [ dec |-> IF r.kind = "Incomplete" THEN r.seq ELSE c.seq,
          ch |-> c.ch, consumed |-> c.position,
          s |-> Prefix(input, r.position), kind |-> r.kind, skip |-> r.skip,
          rem_at |-> rem_at,
          remaining |-> IF r.kind = "Error"
                        THEN Suffix(input_chunk, rem_at) ELSE <<>>,
          panic |-> \/ c.panic
                    \/ c.position > Len(input_chunk)
                    \/ r.kind = "Panic"
                    \/ r.position > Len(input)
                    \/ rem_at > Len(input_chunk) ])))

has_incomplete_sequence(self) == self.len > 0

---------------------------------------------------------------------------
(* LossyDecoder.                                                           *)

\* The loop of feed is followed for at most the length of the input plus
\* this many calls of decode; a loop still going then is reported as such.
MaxExtraCalls == 3

\* Result::Error whose remaining_input_after_error is as long as the input
\* given: the loop of feed decodes the same bytes again.
DecodeStalls(input, d) ==
    d.kind = "Error" /\ Len(d.remaining) >= Len(input)

\* Result::Error that complete() returned: a sequence was pending and no
\* code point was put back together.
ErrorOfComplete(self, d) ==
    d.kind = "Error" /\ self.len > 0 /\ d.ch = <<>>

\* The loop of LossyDecoder::feed: the decoder after it, the text pushed (in
\* order), the number of callback invocations, the number of Result::Error
\* met (each pushes one REPLACEMENT_CHARACTER) and of decode calls made, the
\* Result of the last decode call (Ok or Incomplete; Running when the loop
\* was still going after `fuel` calls), the number of Errors whose remaining
\* input was as long as the input (stalls), and how many of these the scan
\* returned (scan_stalls).
RECURSIVE feed_loop(_, _, _)
feed_loop(self, input, fuel) ==
    IF fuel = 0
    THEN [ decoder |-> self, text |-> <<>>, pushes |-> 0, errors |-> 0,
           calls |-> 0, kind |-> "Running", stalls |-> 0, scan_stalls |-> 0,
           panic |-> FALSE ]
    ELSE
    Bind(decode(self, input), LAMBDA d :
    LET pushed == (IF d.ch # <<>> THEN d.ch ELSE <<>>)
                    \o (IF d.s # <<>> THEN d.s ELSE <<>>)
        n == (IF d.ch # <<>> THEN 1 ELSE 0) + (IF d.s # <<>> THEN 1 ELSE 0)
    IN  IF d.kind \in {"Ok", "Incomplete"}
        THEN [ decoder |-> d.dec, text |-> pushed, pushes |-> n,
               errors |-> 0, calls |-> 1, kind |-> d.kind,
               stalls |-> 0, scan_stalls |-> 0,
               panic |-> d.panic ]
        ELSE Bind(feed_loop(d.dec, d.remaining, fuel - 1), LAMBDA rest :
                 [ decoder |-> rest.decoder,
                   text |-> pushed \o REPLACEMENT_CHARACTER \o rest.text,
                   pushes |-> n + 1 + rest.pushes,
                   errors |-> 1 + rest.errors,
                   calls |-> 1 + rest.calls,
                   kind |-> rest.kind,
                   stalls |-> rest.stalls
                       + (IF DecodeStalls(input, d) THEN 1 ELSE 0),
                   scan_stalls |-> rest.scan_stalls
                       + (IF DecodeStalls(input, d) /\ ~ErrorOfComplete(self, d)
                          THEN 1 ELSE 0),
                   panic |-> d.panic \/ rest.panic ]))

\* LossyDecoder::feed(input)
feed(self, input) == feed_loop(self, input, Len(input) + MaxExtraCalls)

\* A mutant of drop: a pending sequence is forgotten silently.
drop_silent(self) == <<>>

\* Drop for LossyDecoder: the text pushed.
drop(self) ==
    IF has_incomplete_sequence(self) THEN REPLACEMENT_CHARACTER ELSE <<>>

---------------------------------------------------------------------------
(* The single-chunk lossy decoding of the Decoder's documentation.         *)

\* The loop of string_from_utf8_lossy: the String returned, and whether the
\* debug_assert (nothing reconstituted) held at every turn.
RECURSIVE string_from_utf8_lossy_loop(_, _, _)
string_from_utf8_lossy_loop(self, input, string) ==
    Bind(decode(self, input), LAMBDA d :
    Bind(string \o d.s, LAMBDA pushed :
        CASE d.kind = "Ok" ->
               [string |-> pushed, asserted |-> d.ch = <<>>]
          [] d.kind = "Incomplete" ->
               [string |-> pushed \o REPLACEMENT_CHARACTER,
                asserted |-> d.ch = <<>>]
          [] OTHER ->
               LET rest == string_from_utf8_lossy_loop(
                               d.dec, d.remaining,
                               pushed \o REPLACEMENT_CHARACTER)
               IN  [rest EXCEPT !.asserted = @ /\ d.ch = <<>>]))

\* A mutant of string_from_utf8_lossy: a truncated last sequence is dropped
\* without a replacement character.
RECURSIVE string_from_utf8_lossy_truncating_loop(_, _, _)
string_from_utf8_lossy_truncating_loop(self, input, string) ==
    Bind(decode(self, input), LAMBDA d :
    Bind(string \o d.s, LAMBDA pushed :
        IF d.kind \in {"Ok", "Incomplete"}
        THEN [string |-> pushed, asserted |-> d.ch = <<>>]
        ELSE LET rest == string_from_utf8_lossy_truncating_loop(
                             d.dec, d.remaining,
                             pushed \o REPLACEMENT_CHARACTER)
             IN  [rest EXCEPT !.asserted = @ /\ d.ch = <<>>]))

string_from_utf8_lossy_truncating(input) ==
    string_from_utf8_lossy_truncating_loop(NewDecoder, input, <<>>)

string_from_utf8_lossy(input) ==
    string_from_utf8_lossy_loop(NewDecoder, input, <<>>)

---------------------------------------------------------------------------
(* The byte strings of test_is_utf8.                                       *)

\* Those whose decoding must fail.
NOT_UTF8 ==
    { << \h80 >>,
      << \hC0 >>, << \hC0, \h10 >>,
      << \hE0 >>, << \hE0, \h10 >>, << \hE0, \hFF, \h10 >>,
      << \hF0 >>, << \hF0, \h10 >>, << \hF0, \hFF, \h10 >>,
      << \hF0, \hFF, \hFF, \h10 >>,
      << \hC0, \h80 >>, << \hC0, \hAE >>,
      << \hE0, \h80, \h80 >>, << \hE0, \h80, \hAF >>, << \hE0, \h81, \h81 >>,
      << \hF0, \h82, \h82, \hAC >>, << \hF4, \h90, \h80, \h80 >>,
      << \hED, \hA0, \h80 >>, << \hED, \hBF, \hBF >> }

\* Those whose decoding must succeed.
IS_UTF8 ==
    { << \h65, \hC3, \hA9, \hE2, \h82, \hAC, \hF0, \h90, \h80, \h80 >>,
      << \hC2, \h80 >>, << \hDF, \hBF >>,
      << \hE0, \hA0, \h80 >>, << \hED, \h9F, \hBF >>,
      << \hEE, \h80, \h80 >>, << \hEF, \hBF, \hBF >>,
      << \hF0, \h90, \h80, \h80 >>, << \hF4, \h8F, \hBF, \hBF >> }

---------------------------------------------------------------------------
(* Well-formed UTF-8, from the RFC 3629 syntax quoted in Decoder::decode.  *)

UTF8_tail == \h80 .. \hBF

\* The alternatives of UTF8-1, UTF8-2, UTF8-3 and UTF8-4, each the bytes
\* allowed at each place.
UTF8_char_syntax ==
    { << \h00 .. \h7F >>,
      << \hC2 .. \hDF, UTF8_tail >>,
      << {\hE0}, \hA0 .. \hBF, UTF8_tail >>,
      << \hE1 .. \hEC, UTF8_tail, UTF8_tail >>,
      << {\hED}, \h80 .. \h9F, UTF8_tail >>,
      << \hEE .. \hEF, UTF8_tail, UTF8_tail >>,
      << {\hF0}, \h90 .. \hBF, UTF8_tail, UTF8_tail >>,
      << \hF1 .. \hF3, UTF8_tail, UTF8_tail, UTF8_tail >>,
      << {\hF4}, \h80 .. \h8F, UTF8_tail, UTF8_tail >> }

\* s is one UTF8-char.
UTF8_char(s) ==
    \E alt \in UTF8_char_syntax :
        Len(s) = Len(alt) /\ \A i \in 1 .. Len(s) : s[i] \in alt[i]

Min(a, b) == IF a <= b THEN a ELSE b

\* UTF8-octets = *( UTF8-char )
RECURSIVE WellFormed(_)
WellFormed(s) ==
    \/ s = <<>>
    \/ \E k \in 1 .. Min(4, Len(s)) :
          UTF8_char(Prefix(s, k)) /\ WellFormed(Suffix(s, k))

\* p is the beginning of some UTF8-char and is not a whole one.
IsCharPrefix(p) ==
    /\ p # <<>>
    /\ \E alt \in UTF8_char_syntax :
          Len(p) < Len(alt) /\ \A i \in 1 .. Len(p) : p[i] \in alt[i]

\* The pieces of s, left to right: a UTF8-char where one starts, and else
\* the longest beginning of a UTF8-char (an ill-formed maximal subpart), or
\* the one byte that begins none.  Each piece is [char, len].
RECURSIVE Pieces(_)
Pieces(s) ==
    IF s = <<>> THEN <<>>
    ELSE LET chars == { k \in 1 .. Min(4, Len(s)) : UTF8_char(Prefix(s, k)) }
             parts == { k \in 1 .. Min(3, Len(s)) : IsCharPrefix(Prefix(s, k)) }
             longest(S) == CHOOSE k \in S : \A j \in S : j <= k
             piece == IF chars # {}
                      THEN [char |-> TRUE, len |-> longest(chars)]
                      ELSE [char |-> FALSE, len |-> longest(parts \cup {1})]
         IN  <<piece>> \o Pieces(Suffix(s, piece.len))

\* The number of ill-formed pieces among ps.
Subparts(ps) == Cardinality({ i \in DOMAIN ps : ~ps[i].char })

\* s, whose pieces are ps, ends in the beginning of a UTF8-char that its end
\* cuts short.
EndsIncomplete(s, ps) ==
    /\ ps # <<>>
    /\ ~ps[Len(ps)].char
    /\ IsCharPrefix(Suffix(s, Len(s) - ps[Len(ps)].len))

\* The text of s with one U+FFFD for each ill-formed piece, as
\* String::from_utf8_lossy gives it.
RECURSIVE LossyOf(_, _)
LossyOf(s, ps) ==
    IF ps = <<>> THEN <<>>
    ELSE (IF ps[1].char THEN Prefix(s, ps[1].len) ELSE REPLACEMENT_CHARACTER)
            \o LossyOf(Suffix(s, ps[1].len), Tail(ps))

from_utf8_lossy(s) == LossyOf(s, Pieces(s))

\* The text of s with one U+FFFD for each maximal run of ill-formed pieces.
RECURSIVE CollapsedOf(_, _, _)
CollapsedOf(s, ps, inRun) ==
    IF ps = <<>> THEN <<>>
    ELSE (IF ps[1].char THEN Prefix(s, ps[1].len)
          ELSE IF inRun THEN <<>> ELSE REPLACEMENT_CHARACTER)
            \o CollapsedOf(Suffix(s, ps[1].len), Tail(ps), ~ps[1].char)

OnePerRun(s) == CollapsedOf(s, Pieces(s), FALSE)

---------------------------------------------------------------------------
(* The streams and expected texts of the tests.                            *)

DECODED_LOSSY == <<
    [ input    |-> << \h68, \h65, \h6C, \h6C, \h6F >>,
      expected |-> << \h68, \h65, \h6C, \h6C, \h6F >> ],
    [ input    |-> << \hE0, \hB8, \hA8, \hE0, \hB9, \h84, \hE0, \hB8, \h97, \hE0, \hB8, \hA2,
                     \hE4, \hB8, \hAD, \hE5, \h8D, \h8E >>,
      expected |-> << \hE0, \hB8, \hA8, \hE0, \hB9, \h84, \hE0, \hB8, \h97, \hE0, \hB8, \hA2,
                     \hE4, \hB8, \hAD, \hE5, \h8D, \h8E >> ],
    [ input    |-> << \h56, \h69, \hE1, \hBB, \h87, \h74, \h20, \h4E, \h61, \h6D >>,
      expected |-> << \h56, \h69, \hE1, \hBB, \h87, \h74, \h20, \h4E, \h61, \h6D >> ],
    [ input    |-> << \h48, \h65, \h6C, \h6C, \h6F, \hC2, \h20, \h54, \h68, \h65, \h72, \h65,
                     \hFF, \h20 >>,
      expected |-> << \h48, \h65, \h6C, \h6C, \h6F, \hEF, \hBF, \hBD, \h20, \h54, \h68, \h65,
                     \h72, \h65, \hEF, \hBF, \hBD, \h20 >> ],
    [ input    |-> << \h48, \h65, \h6C, \h6C, \h6F, \hC0, \h80, \h20, \h54, \h68, \h65, \h72,
                     \h65 >>,
      expected |-> << \h48, \h65, \h6C, \h6C, \h6F, \hEF, \hBF, \hBD, \hEF, \hBF, \hBD, \h20,
                     \h54, \h68, \h65, \h72, \h65 >> ],
    [ input    |-> << \hE6, \h83, \h20, \h47, \h6F, \h6F, \h64, \h62, \h79, \h65 >>,
      expected |-> << \hEF, \hBF, \hBD, \h20, \h47, \h6F, \h6F, \h64, \h62, \h79, \h65 >> ],
    [ input    |-> << \hF5, \h66, \h6F, \h6F, \hF5, \h80, \h62, \h61, \h72 >>,
      expected |-> << \hEF, \hBF, \hBD, \h66, \h6F, \h6F, \hEF, \hBF, \hBD, \hEF, \hBF, \hBD,
                     \h62, \h61, \h72 >> ],
    [ input    |-> << \hF5, \h66, \h6F, \h6F, \hF5, \hC2 >>,
      expected |-> << \hEF, \hBF, \hBD, \h66, \h6F, \h6F, \hEF, \hBF, \hBD, \hEF, \hBF, \hBD >> ],
    [ input    |-> << \hF1, \h66, \h6F, \h6F, \hF1, \h80, \h62, \h61, \h72, \hF1, \h80, \h80,
                     \h62, \h61, \h7A >>,
      expected |-> << \hEF, \hBF, \hBD, \h66, \h6F, \h6F, \hEF, \hBF, \hBD, \h62, \h61, \h72,
                     \hEF, \hBF, \hBD, \h62, \h61, \h7A >> ],
    [ input    |-> << \hF4, \h66, \h6F, \h6F, \hF4, \h80, \h62, \h61, \h72, \hF4, \hBF, \h62,
                     \h61, \h7A >>,
      expected |-> << \hEF, \hBF, \hBD, \h66, \h6F, \h6F, \hEF, \hBF, \hBD, \h62, \h61, \h72,
                     \hEF, \hBF, \hBD, \hEF, \hBF, \hBD, \h62, \h61, \h7A >> ],
    [ input    |-> << \hF0, \h80, \h80, \h80, \h66, \h6F, \h6F, \hF0, \h90, \h80, \h80, \h62,
                     \h61, \h72 >>,
      expected |-> << \hEF, \hBF, \hBD, \hEF, \hBF, \hBD, \hEF, \hBF, \hBD, \hEF, \hBF, \hBD,
                     \h66, \h6F, \h6F, \hF0, \h90, \h80, \h80, \h62, \h61, \h72 >> ],
    [ input    |-> << \hF0, \h90, \h80, \h66, \h6F, \h6F >>,
      expected |-> << \hEF, \hBF, \hBD, \h66, \h6F, \h6F >> ],
    [ input    |-> << \hED, \hA0, \h80, \h66, \h6F, \h6F, \hED, \hBF, \hBF, \h62, \h61, \h72 >>,
      expected |-> << \hEF, \hBF, \hBD, \hEF, \hBF, \hBD, \hEF, \hBF, \hBD, \h66, \h6F, \h6F,
                     \hEF, \hBF, \hBD, \hEF, \hBF, \hBD, \hEF, \hBF, \hBD, \h62, \h61, \h72 >> ] >>

\* The beginnings of the streams of the tests.
FixturePrefixes ==
    UNION { { Prefix(DECODED_LOSSY[i].input, k) :
                k \in 0 .. Len(DECODED_LOSSY[i].input) } :
            i \in DOMAIN DECODED_LOSSY }

\* The streams of the tests that start with s and go on.
FixtureFrom(s) ==
    IF s \notin FixturePrefixes THEN {}
    ELSE { i \in DOMAIN DECODED_LOSSY :
             /\ Len(s) < Len(DECODED_LOSSY[i].input)
             /\ IsPrefix(s, DECODED_LOSSY[i].input) }

---------------------------------------------------------------------------
(* A LossyDecoder fed a byte stream chunk by chunk, then dropped.          *)

NoCall == [op |-> "new"]

\* BufReadDecoder::new(buf_read), over a reader that has presented no byte
\* yet: how many bytes the reader was told to consume, whether it has met
\* the end of its stream, and how many I/O errors it has returned.
NewBufReadDecoder ==
    [ buf_read |-> [consumed |-> 0, eof |-> FALSE, errors |-> 0],
      bytes_consumed |-> 0,
      incomplete |-> <<>> ]

Init ==
    /\ decoder = NewDecoder
    /\ stream = <<>>
    /\ out = <<>>
    /\ repl = 0
    /\ dropped = FALSE
    /\ used = 0
    /\ buf_read_decoder = NewBufReadDecoder
    /\ last = NoCall

\* LossyDecoder::feed(chunk)
Feed(chunk) ==
    /\ ~dropped
    /\ \E f \in {feed(decoder, chunk)} :
           /\ decoder' = f.decoder
           /\ stream' = stream \o chunk
           /\ out' = out \o f.text
           /\ repl' = repl + f.errors
           /\ last' = [op |-> "feed"]
    /\ UNCHANGED <<dropped, used, buf_read_decoder>>

\* The LossyDecoder goes out of scope.
Drop ==
    /\ ~dropped
    /\ dropped' = TRUE
    /\ out' = out \o drop(decoder)
    /\ last' = [op |-> "drop", pushed |-> drop(decoder)]
    /\ UNCHANGED <<decoder, stream, repl, used, buf_read_decoder>>

Next ==
    \/ /\ ~dropped
       /\ \A i \in DOMAIN stream : stream[i] \in StreamSamples
       /\ \E n \in 1 .. (MaxLen - Len(stream)) :
             \E chunk \in [1 .. n -> StreamSamples] : Feed(chunk)
    \/ /\ ~dropped
       /\ \E i \in FixtureFrom(stream) :
             \E n \in Len(stream) + 1 .. Len(DECODED_LOSSY[i].input) :
                Feed(SubSeq(DECODED_LOSSY[i].input, Len(stream) + 1, n))
    \/ Drop

Spec == Init /\ [][Next]_vars

---------------------------------------------------------------------------
(* A Decoder given chunks by its caller, one decode call at a time.        *)

\* More byte strings given to a new Decoder: the cases the documentation of
\* the decoder's behaviour names that the tests above do not hold.
MoreChunks ==
    { << \hE6, \h83, \h20 >>, << \hF0, \h80, \h80, \h80 >>,
      << \hF0, \h90, \h80 >>, << \hE6, \h83 >>,
      << \hED, \hA0, \hBF >>, << \hED, \hBF, \h80 >>,
      << \hF4, \h90, \hBF, \hBF >>, << \hF4, \hBF, \hBF, \hBF >>,
      << \hF5, \h80, \h80, \h80 >>, << \hFF, \h20 >>,
      << \h20, \hF1, \h80, \h80, \hC1, \h20 >> }

TestChunks == NOT_UTF8 \cup IS_UTF8 \cup MoreChunks

\* Decoder::decode(chunk); resumed tells that chunk is the
\* remaining_input_after_error of the call before.  For a sequence that was
\* pending before the call, waited is the number of input bytes supplied
\* between the call that stored it and this call, and since is that number
\* after this call if the sequence is pending still.
Decode(chunk, resumed) ==
    /\ \E d \in {decode(decoder, chunk)} :
           /\ decoder' = d.dec
           /\ last' = [ op |-> "decode",
                        prev |-> IF last.op = "decode" THEN last.kind ELSE "none",
                        resumed |-> resumed,
                        before |-> decoder,
                        chunk |-> chunk,
                        ch |-> d.ch,
                        consumed |-> d.consumed,
                        s |-> d.s,
                        kind |-> d.kind,
                        skip |-> d.skip,
                        rem_at |-> d.rem_at,
                        remaining |-> d.remaining,
                        waited |-> IF decoder.len > 0 THEN last.since ELSE 0,
                        since |-> IF decoder.len > 0 /\ d.kind = "Incomplete"
                                       /\ d.ch = <<>>
                                  THEN last.since + Len(chunk) ELSE 0,
                        panic |-> d.panic ]
    /\ used' = used + (IF resumed THEN 0 ELSE Len(chunk))
    /\ UNCHANGED <<stream, out, repl, dropped, buf_read_decoder>>

\* The caller has input left over from the call before: the documentation
\* of Result::Error has it call decode again with that input.
MustResume ==
    last.op = "decode" /\ last.kind = "Error" /\ last.remaining # <<>>

DecodeNext ==
    \/ /\ ~MustResume
       /\ \E n \in 0 .. (MaxBytes - used) :
             \E chunk \in [1 .. n -> DecodeSamples] : Decode(chunk, FALSE)
    \/ /\ last.op = "new"
       /\ \E chunk \in TestChunks : Decode(chunk, FALSE)
    \/ /\ last.op = "new"
       /\ \E n \in 1 .. MaxBytes :
             \E chunk \in [1 .. n -> AsciiSamples] : Decode(chunk, FALSE)
    \/ /\ MustResume
       /\ Decode(last.remaining, TRUE)

DecodeSpec == Init /\ [][DecodeNext]_vars

---------------------------------------------------------------------------
(* string_from_utf8_lossy applied to one input.                            *)

StringFromUtf8Lossy(input) ==
    /\ last.op = "new"
    /\ \E r \in {string_from_utf8_lossy(input)} :
           /\ out' = r.string
           /\ last' = [op |-> "string_from_utf8_lossy", asserted |-> r.asserted]
    /\ stream' = input
    /\ UNCHANGED <<decoder, repl, dropped, used, buf_read_decoder>>

LossyNext ==
    \/ /\ last.op = "new"
       /\ \E n \in 0 .. MaxInput :
             \E input \in [1 .. n -> ByteSamples] : StringFromUtf8Lossy(input)
    \/ /\ last.op = "new"
       /\ \E i \in DOMAIN DECODED_LOSSY :
             StringFromUtf8Lossy(DECODED_LOSSY[i].input)
    \/ /\ last.op = "new"
       /\ \E input \in TestChunks : StringFromUtf8Lossy(input)

LossySpec == Init /\ [][LossyNext]_vars

---------------------------------------------------------------------------
(* based_on_std.rs: decode on top of str::from_utf8, and IncompleteChar.   *)
(* Its UTF8_CHAR_WIDTH, is_continuation_byte and the two prefix checks are *)
(* the same, entry by entry, as those of lib.rs defined above.             *)

\* str::from_utf8(input): error.valid_up_to(), the length of the longest
\* well-formed prefix of input.
valid_up_to(input) ==
    CHOOSE k \in 0 .. Len(input) :
        /\ WellFormed(Prefix(input, k))
        /\ \A j \in k + 1 .. Len(input) : ~WellFormed(Prefix(input, j))

NoIncompleteChar == [buffer |-> <<0, 0, 0, 0>>, buffer_len |-> 0, char_width |-> 0]

\* get_byte!(i) of decode with no byte at i: the bytes after the valid
\* prefix are copied to a new IncompleteChar (copy_from_slice panics unless
\* there are exactly i of them).
StdIncomplete(valid, after_valid, i, char_width) ==
    [ kind |-> "Incomplete", valid |-> valid, invalid |-> <<>>, rest |-> <<>>,
      ic |-> [ buffer |-> Prefix(after_valid \o <<0, 0, 0, 0>>, 4),
               buffer_len |-> i, char_width |-> char_width ],
      panic |-> Len(after_valid) # i ]

\* The end of decode: after_valid.split_at(invalid_sequence_length);
\* asserted is the debug_assert of the arm taken.
StdError(valid, after_valid, invalid_sequence_length, asserted) ==
    [ kind |-> "Error", valid |-> valid,
      invalid |-> Prefix(after_valid, invalid_sequence_length),
      rest |-> Suffix(after_valid, invalid_sequence_length),
      ic |-> NoIncompleteChar,
      panic |-> ~asserted \/ invalid_sequence_length > Len(after_valid) ]

\* panic!() and unreachable!() of decode.
StdPanic(valid) ==
    [ kind |-> "Panic", valid |-> valid, invalid |-> <<>>, rest |-> <<>>,
      ic |-> NoIncompleteChar, panic |-> TRUE ]

\* based_on_std::decode(input)
based_on_std_decode(input) ==
    IF WellFormed(input)
    THEN [ kind |-> "Ok", valid |-> input, invalid |-> <<>>, rest |-> <<>>,
           ic |-> NoIncompleteChar, panic |-> FALSE ]
    ELSE
    Bind(valid_up_to(input), LAMBDA up_to :
    LET valid == Prefix(input, up_to)
        after_valid == Suffix(input, up_to)
        first == after_valid[1]
        char_width == UTF8_CHAR_WIDTH[first + 1]
        none(i) == Len(after_valid) <= i
        second == after_valid[2]
        third == after_valid[3]
        fourth == after_valid[4]
    IN  CASE char_width = 0 -> StdError(valid, after_valid, 1, TRUE)
          [] char_width = 1 -> StdPanic(valid)
          [] char_width = 2 ->
               IF none(1) THEN StdIncomplete(valid, after_valid, 1, char_width)
               ELSE StdError(valid, after_valid, 2,
                             ~is_continuation_byte(second))
          [] char_width = 3 ->
               IF none(1) THEN StdIncomplete(valid, after_valid, 1, char_width)
               ELSE IF valid_three_bytes_sequence_prefix(first, second)
               THEN IF none(2)
                    THEN StdIncomplete(valid, after_valid, 2, char_width)
                    ELSE StdError(valid, after_valid, 3,
                                  ~is_continuation_byte(third))
               ELSE StdError(valid, after_valid, 2, TRUE)
          [] char_width = 4 ->
               IF none(1) THEN StdIncomplete(valid, after_valid, 1, char_width)
               ELSE IF valid_four_bytes_sequence_prefix(first, second)
               THEN IF none(2)
                    THEN StdIncomplete(valid, after_valid, 2, char_width)
                    ELSE IF is_continuation_byte(third)
                    THEN IF none(3)
                         THEN StdIncomplete(valid, after_valid, 3, char_width)
                         ELSE StdError(valid, after_valid, 4,
                                       ~is_continuation_byte(fourth))
                    ELSE StdError(valid, after_valid, 3, TRUE)
               ELSE StdError(valid, after_valid, 2, TRUE)
          [] OTHER -> StdPanic(valid))

\* The match of try_complete on (buffer_len, char_width): the require!()s of
\* the arm taken, in order.
TryCompleteArm(self) ==
    LET m == <<self.buffer_len, self.char_width>>
    IN  CASE m \in {<<1, 2>>, <<2, 3>>, <<3, 4>>} -> <<"continuation">>
          [] m = <<1, 3>> -> <<"three", "continuation">>
          [] m = <<1, 4>> -> <<"four", "continuation", "continuation">>
          [] m = <<2, 4>> -> <<"continuation", "continuation">>
          [] OTHER -> <<"panic">>

\* The condition of one require!().
TryCompleteCondition(check, self, next_byte) ==
    CASE check = "three" ->
           valid_three_bytes_sequence_prefix(self.buffer[1], next_byte)
      [] check = "four" ->
           valid_four_bytes_sequence_prefix(self.buffer[1], next_byte)
      [] OTHER -> is_continuation_byte(next_byte)

\* take_one_byte!(): the byte is stored in the buffer and leaves the input.
take_one_byte(self, input) ==
    [ self EXCEPT !.buffer[self.buffer_len + 1] = Head(input),
                  !.buffer_len = @ + 1 ]

\* A mutant of TryCompleteError: char_width is left as it was.
TryCompleteError_no_poison(self, input) ==
    [ kind |-> "Error", ic |-> self,
      code_point |-> <<>>,
      invalid |-> Prefix(self.buffer, self.buffer_len),
      rest |-> input, panic |-> FALSE ]

\* require!() failing: the invalid sequence is the buffer as it is now.
TryCompleteError(self, input) ==
    [ kind |-> "Error", ic |-> [self EXCEPT !.char_width = 255],
      code_point |-> <<>>,
      invalid |-> Prefix(self.buffer, self.buffer_len),
      rest |-> input, panic |-> FALSE ]

\* The require!()s left to pass, one byte each.
RECURSIVE TryCompleteFrom(_, _, _)
TryCompleteFrom(self, input, checks) ==
    IF checks = <<>>
    THEN LET one_code_point == Prefix(self.buffer, self.buffer_len)
         IN  [ kind |-> "Ok", ic |-> self, code_point |-> one_code_point,
               invalid |-> <<>>, rest |-> input,
               panic |-> \/ self.buffer_len # self.char_width
                         \/ ~UTF8_char(one_code_point) ]
    ELSE IF input = <<>>
    THEN [ kind |-> "StillIncomplete", ic |-> self, code_point |-> <<>>,
           invalid |-> <<>>, rest |-> <<>>, panic |-> FALSE ]
    ELSE Bind(take_one_byte(self, input), LAMBDA taken :
         IF ~TryCompleteCondition(Head(checks), self, Head(input))
         THEN TryCompleteError(taken, Tail(input))
         ELSE TryCompleteFrom(taken, Tail(input), Tail(checks)))

\* IncompleteChar::try_complete(input)
try_complete(self, input) ==
    IF TryCompleteArm(self) = <<"panic">>
    THEN [ kind |-> "Panic", ic |-> self, code_point |-> <<>>,
           invalid |-> <<>>, rest |-> <<>>, panic |-> TRUE ]
    ELSE TryCompleteFrom(self, input, TryCompleteArm(self))

\* based_on_std::decode(input), the first call of a stream.
StdDecode(input) ==
    /\ last.op = "new"
    /\ \E r \in {based_on_std_decode(input)} :
           last' = [ op |-> "based_on_std_decode", input |-> input,
                     kind |-> r.kind, valid |-> r.valid,
                     invalid |-> r.invalid, rest |-> r.rest,
                     ic |-> r.ic, panic |-> r.panic ]
    /\ stream' = input
    /\ UNCHANGED <<decoder, out, repl, dropped, used, buf_read_decoder>>

\* try_complete(input) on the IncompleteChar the call before left: prev is
\* what that call returned, and stills the number of calls so far on this
\* IncompleteChar that returned StillIncomplete (counted up to MaxStd).
TryComplete(input) ==
    /\ last.op \in {"based_on_std_decode", "try_complete"}
    /\ last.kind \in {"Incomplete", "StillIncomplete", "Ok", "Error"}
    /\ last.op = "based_on_std_decode" => last.kind = "Incomplete"
    /\ \E r \in {try_complete(last.ic, input)} :
           last' = [ op |-> "try_complete", before |-> last.ic,
                     prev |-> last.kind,
                     stills |-> Min(MaxStd,
                                    (IF last.op = "try_complete"
                                     THEN last.stills ELSE 0)
                                    + (IF r.kind = "StillIncomplete"
                                       THEN 1 ELSE 0)),
                     input |-> input, kind |-> r.kind,
                     code_point |-> r.code_point,
                     invalid |-> r.invalid, rest |-> r.rest,
                     ic |-> r.ic, panic |-> r.panic ]
    /\ stream' = stream \o input
    /\ UNCHANGED <<decoder, out, repl, dropped, used, buf_read_decoder>>

StdNext ==
    \/ /\ last.op = "new"
       /\ \E n \in 0 .. MaxStd :
             \E input \in [1 .. n -> StreamSamples] : StdDecode(input)
    \/ /\ last.op = "new"
       /\ \E i \in DOMAIN DECODED_LOSSY : StdDecode(DECODED_LOSSY[i].input)
    \/ /\ last.op \in {"based_on_std_decode", "try_complete"}
       /\ last.kind \in {"Incomplete", "StillIncomplete"}
       /\ \E n \in 0 .. (MaxStd - Len(stream)) :
             \E input \in [1 .. n -> StreamSamples] : TryComplete(input)
    \/ /\ last.op = "try_complete"
       /\ last.kind \in {"Ok", "Error"}
       /\ \E n \in 0 .. Min(1, MaxStd - Len(stream)) :
             \E input \in [1 .. n -> StreamSamples] : TryComplete(input)

StdSpec == Init /\ [][StdNext]_vars

---------------------------------------------------------------------------
(* A LossyDecoder whose callback invocations are counted call by call.     *)

\* LossyDecoder::feed(chunk), with what the call did to the callback.
FeedCall(chunk) ==
    /\ ~dropped
    /\ \E f \in {feed(decoder, chunk)} :
           /\ decoder' = f.decoder
           /\ stream' = stream \o chunk
           /\ out' = out \o f.text
           /\ repl' = repl + f.errors
           /\ last' = [ op |-> "feed_call", before |-> decoder,
                        chunk |-> chunk, text |-> f.text,
                        pushes |-> f.pushes, errors |-> f.errors,
                        calls |-> f.calls, kind |-> f.kind,
                        stalls |-> f.stalls,
                        scan_stalls |-> f.scan_stalls,
                        panic |-> f.panic ]
    /\ UNCHANGED <<dropped, used, buf_read_decoder>>

\* The LossyDecoder goes out of scope, with what drop did to the callback.
DropCall ==
    /\ ~dropped
    /\ dropped' = TRUE
    /\ out' = out \o drop(decoder)
    /\ last' = [ op |-> "drop_call", before |-> decoder,
                 text |-> drop(decoder),
                 pushes |-> IF drop(decoder) = <<>> THEN 0 ELSE 1 ]
    /\ UNCHANGED <<decoder, stream, repl, used, buf_read_decoder>>

FeedNext ==
    \/ /\ ~dropped
       /\ \E n \in 0 .. (MaxFed - Len(stream)) :
             \E chunk \in [1 .. n -> StreamSamples] : FeedCall(chunk)
    \/ DropCall

FeedSpec == Init /\ [][FeedNext]_vars

---------------------------------------------------------------------------
(* src/read.rs: BufReadDecoder over a std::io::BufRead.  The bytes the     *)
(* reader has put in its buffer so far are `stream`; its buffer is those   *)
(* not yet consumed.  An Incomplete is the bytes it holds.                 *)

\* The most bytes the reader of a BufReadDecoder presents before its end.
MaxRead == 4

\* The most I/O errors the reader returns.
MaxIoErrors == 1

\* The bytes of the reader's stream: ASCII, a continuation byte that E0 and
\* F0 refuse as second byte (80) and one they accept (A0), and the leads of
\* a 2-byte, a 3-byte and a 4-byte sequence.
ReadSamples ==
    { \h20, \h80, \hA0, \hC2, \hE0, \hF0 }

\* The reader's internal buffer.
Buffer(buf_read, data) == Suffix(data, buf_read.consumed)

\* BufRead::consume(amt); as BufReader does, never past the buffer's end.
consume(buf_read, data, amt) ==
    [buf_read EXCEPT !.consumed = Min(@ + amt, Len(data))]

\* BufRead::fill_buf(): the outcomes the reader can produce.  A buffer that
\* is not empty is returned as it is; an empty one is filled by a read,
\* which brings any number of bytes, or none at the end of the stream, or
\* fails with an I/O error.
fill_buf(buf_read, data) ==
    IF Buffer(buf_read, data) # <<>>
    THEN { [buf_read |-> buf_read, data |-> data, io_error |-> FALSE] }
    ELSE { [buf_read |-> buf_read, data |-> data \o more, io_error |-> FALSE] :
             more \in IF buf_read.eof THEN {}
                      ELSE UNION { [1 .. n -> ReadSamples] :
                                     n \in 1 .. (MaxRead - Len(data)) } }
         \cup { [buf_read |-> [buf_read EXCEPT !.eof = TRUE],
                 data |-> data, io_error |-> FALSE] }
         \cup { [buf_read |-> [buf_read EXCEPT !.errors = @ + 1],
                 data |-> data, io_error |-> TRUE] :
                  e \in IF buf_read.errors < MaxIoErrors THEN {1} ELSE {} }

\* str::from_utf8(input): error.error_len() where valid_up_to() is 0, with 0
\* for None (the input ends within a code point).
error_len(input) ==
    Bind(Pieces(input)[1], LAMBDA piece :
        IF piece.len = Len(input) /\ IsCharPrefix(input) THEN 0 ELSE piece.len)

\* Incomplete::empty(), Incomplete::is_empty() and Incomplete::new(bytes).
Incomplete_empty == <<>>

Incomplete_is_empty(self) == self = <<>>

Incomplete_new(bytes) == bytes

\* Incomplete::take_buffer(): the bytes held, which the Incomplete gives up.
take_buffer(self) == [bytes |-> self, incomplete |-> Incomplete_empty]

\* Incomplete::try_complete_offsets(input), resuming where the scan left
\* off: for each byte still missing, the next byte of input is pulled and
\* checked with the predicate of its position.  Returns the bytes held
\* after the call, the number of bytes of input consumed, and None (input
\* exhausted), Ok (one code point held) or Err (the bytes held are invalid;
\* the byte that failed is not consumed).
RECURSIVE try_complete_offsets_from(_, _, _)
try_complete_offsets_from(self, input, consumed) ==
    IF Len(self) >= width(self[1])
    THEN [incomplete |-> self, consumed |-> consumed, result |-> "Ok"]
    ELSE IF consumed >= Len(input)
    THEN [incomplete |-> self, consumed |-> consumed, result |-> "None"]
    ELSE LET byte == input[consumed + 1]
             passes == IF Len(self) = 1
                       THEN valid_second(width(self[1]), self[1], byte)
                       ELSE is_continuation_byte(byte)
         IN  IF passes
             THEN try_complete_offsets_from(self \o <<byte>>, input, consumed + 1)
             ELSE [incomplete |-> self, consumed |-> consumed, result |-> "Err"]

try_complete_offsets(self, input) == try_complete_offsets_from(self, input, 0)

\* A mutant of AfterConsume: bytes_consumed keeps its value.
AfterConsume_no_reset(self, buf_read) ==
    [self EXCEPT !.buf_read = buf_read]

\* self.bytes_consumed = 0, after self.buf_read.consume(self.bytes_consumed).
AfterConsume(self, buf_read) ==
    [self EXCEPT !.buf_read = buf_read, !.bytes_consumed = 0]

\* return Ok(None)
NextNone(self) ==
    [ self |-> self, outcome |-> "none", source |-> "none",
      byte_count |-> 0, ok |-> FALSE ]

\* continue
NextContinue(self) ==
    [ self |-> self, outcome |-> "continue", source |-> "none",
      byte_count |-> 0, ok |-> FALSE ]

\* break (source, result)
NextBreak(self, source, byte_count, ok) ==
    [ self |-> self, outcome |-> "item", source |-> source,
      byte_count |-> byte_count, ok |-> ok ]

\* A mutant of NeedMoreInput: the bytes copied are not marked as consumed.
NeedMoreInput_not_consumed(self, buf) ==
    NextContinue([self EXCEPT !.incomplete = Incomplete_new(buf)])

\* error_len() is None: the whole buffer is the beginning of a code point.
NeedMoreInput(self, buf) ==
    NextContinue([self EXCEPT !.bytes_consumed = Len(buf),
                              !.incomplete = Incomplete_new(buf)])

\* A mutant of IncompleteAtEof: the bytes held are forgotten silently.
IncompleteAtEof_silent(self) ==
    NextNone([self EXCEPT !.incomplete = Incomplete_empty])

\* EOF with incomplete code point.
IncompleteAtEof(self) == NextBreak(self, "Incomplete", 0, FALSE)

\* The body of the loop of next, after fill_buf returned buf.
next_body(self, buf) ==
    IF Incomplete_is_empty(self.incomplete)
    THEN IF buf = <<>> THEN NextNone(self)
         ELSE IF WellFormed(buf) THEN NextBreak(self, "BufRead", Len(buf), TRUE)
         ELSE Bind(valid_up_to(buf), LAMBDA up_to :
              IF up_to > 0 THEN NextBreak(self, "BufRead", up_to, TRUE)
              ELSE Bind(error_len(buf), LAMBDA invalid_sequence_length :
                   IF invalid_sequence_length # 0
                   THEN NextBreak(self, "BufRead", invalid_sequence_length, FALSE)
                   ELSE NeedMoreInput(self, buf)))
    ELSE IF buf = <<>> THEN IncompleteAtEof(self)
         ELSE Bind(try_complete_offsets(self.incomplete, buf), LAMBDA t :
              Bind([self EXCEPT !.bytes_consumed = t.consumed,
                                !.incomplete = t.incomplete], LAMBDA completed :
                   IF t.result = "None" THEN NextContinue(completed)
                   ELSE NextBreak(completed, "Incomplete", 0, t.result = "Ok")))

\* let bytes = match source: the slice handed out and the decoder after it.
\* buf is what fill_buf returns now; slicing it past its end panics.
next_bytes(r, buf) ==
    IF r.source = "BufRead"
    THEN [ self |-> [r.self EXCEPT !.bytes_consumed = r.byte_count],
           bytes |-> Prefix(buf, r.byte_count),
           panic |-> r.byte_count > Len(buf) ]
    ELSE [ self |-> [r.self EXCEPT
                       !.incomplete = take_buffer(r.self.incomplete).incomplete],
           bytes |-> take_buffer(r.self.incomplete).bytes,
           panic |-> FALSE ]

\* What the call of next before the running one returned.
PriorCall ==
    IF last.op # "next"
    THEN [outcome |-> "new", source |-> "none", eof |-> FALSE, bytes |-> <<>>]
    ELSE IF last.outcome = "continue" THEN last.prior
    ELSE [ outcome |-> last.outcome, source |-> last.source,
           eof |-> last.buf = <<>>, bytes |-> last.bytes ]

\* One turn of the loop of BufReadDecoder::next, with the return that ends
\* the call if the loop is left: the first turn of a call, or the turn after
\* a `continue`.
Next_turn ==
    LET self == buf_read_decoder
        amt == self.bytes_consumed
        had == Buffer(self.buf_read, stream)
        starts == ~(last.op = "next" /\ last.outcome = "continue")
        consumed == IF amt > 0
                    THEN AfterConsume(self, consume(self.buf_read, stream, amt))
                    ELSE self
    IN  \E f \in fill_buf(consumed.buf_read, stream) :
        \E filled \in {[consumed EXCEPT !.buf_read = f.buf_read]} :
        \E buf \in {Buffer(f.buf_read, f.data)} :
        \E r \in {IF f.io_error THEN NextNone(filled) ELSE next_body(filled, buf)} :
        \E b \in {IF r.outcome = "item" THEN next_bytes(r, buf)
                  ELSE [self |-> r.self, bytes |-> <<>>, panic |-> FALSE]} :
           /\ buf_read_decoder' = b.self
           /\ stream' = f.data
           /\ out' = IF r.outcome = "item"
                     THEN Append(out, [ok |-> r.ok, bytes |-> b.bytes])
                     ELSE out
           /\ last' = [ op |-> "next",
                        starts |-> starts,
                        prior |-> PriorCall,
                        amt |-> amt,
                        had |-> Len(had),
                        reset |-> consumed.bytes_consumed,
                        held |-> self.incomplete,
                        buf |-> buf,
                        outcome |-> IF f.io_error THEN "io_error" ELSE r.outcome,
                        source |-> r.source,
                        ok |-> r.ok,
                        bytes |-> b.bytes,
                        items |-> Len(out),
                        panic |-> b.panic ]
           /\ UNCHANGED <<decoder, repl, dropped, used>>

ReadNext == Next_turn

ReadSpec == Init /\ [][ReadNext]_vars

---------------------------------------------------------------------------
(* src/polyfill.rs: utf8error_resume_from, given the Utf8Error of          *)
(* str::from_utf8(input).  Its UTF8_CHAR_WIDTH, is_continuation_byte and   *)
(* prefix checks are those of lib.rs.                                      *)

\* return None: get_byte!() found no byte.
ResumeNone == [some |-> FALSE, resume |-> 0, panic |-> FALSE]

\* panic!(), unreachable!() or an index past the end of after_valid.
ResumePanic == [some |-> FALSE, resume |-> 0, panic |-> TRUE]

\* A mutant of ResumeSome: the byte that failed its check is skipped too.
ResumeSome_swallow(up_to, invalid_sequence_length, asserted) ==
    [ some |-> TRUE, resume |-> up_to + invalid_sequence_length + 1,
      panic |-> ~asserted ]

\* Some(valid_up_to + invalid_sequence_length); asserted is the
\* debug_assert of the arm taken.
ResumeSome(up_to, invalid_sequence_length, asserted) ==
    [ some |-> TRUE, resume |-> up_to + invalid_sequence_length,
      panic |-> ~asserted ]

\* utf8error_resume_from(error, input)
utf8error_resume_from(input) ==
    Bind(valid_up_to(input), LAMBDA up_to :
    LET after_valid == Suffix(input, up_to)
        first == after_valid[1]
        char_width == UTF8_CHAR_WIDTH[first + 1]
        none(i) == Len(after_valid) <= i
        second == after_valid[2]
        third == after_valid[3]
        fourth == after_valid[4]
    IN  IF after_valid = <<>> THEN ResumePanic
        ELSE
        CASE char_width = 0 -> ResumeSome(up_to, 1, TRUE)
          [] char_width = 1 -> ResumePanic
          [] char_width = 2 ->
               IF none(1) THEN ResumeNone
               ELSE ResumeSome(up_to, 1, ~is_continuation_byte(second))
          [] char_width = 3 ->
               IF none(1) THEN ResumeNone
               ELSE IF valid_three_bytes_sequence_prefix(first, second)
               THEN IF none(2) THEN ResumeNone
                    ELSE ResumeSome(up_to, 2, ~is_continuation_byte(third))
               ELSE ResumeSome(up_to, 1, TRUE)
          [] char_width = 4 ->
               IF none(1) THEN ResumeNone
               ELSE IF valid_four_bytes_sequence_prefix(first, second)
               THEN IF none(2) THEN ResumeNone
                    ELSE IF is_continuation_byte(third)
                    THEN IF none(3) THEN ResumeNone
                         ELSE ResumeSome(up_to, 3, ~is_continuation_byte(fourth))
                    ELSE ResumeSome(up_to, 2, TRUE)
               ELSE ResumeSome(up_to, 1, TRUE)
          [] OTHER -> ResumePanic)

\* str::from_utf8(input) returned an error, and utf8error_resume_from is
\* called with it.
Utf8errorResumeFrom(input) ==
    /\ last.op = "new"
    /\ ~WellFormed(input)
    /\ \E r \in {utf8error_resume_from(input)} :
           last' = [ op |-> "utf8error_resume_from", input |-> input,
                     valid_up_to |-> valid_up_to(input),
                     some |-> r.some, resume |-> r.resume,
                     panic |-> r.panic ]
    /\ stream' = input
    /\ UNCHANGED <<decoder, out, repl, dropped, used, buf_read_decoder>>

PolyfillNext ==
    \/ /\ last.op = "new"
       /\ \E n \in 1 .. MaxInput :
             \E input \in [1 .. n -> ByteSamples] : Utf8errorResumeFrom(input)
    \/ /\ last.op = "new"
       /\ \E i \in DOMAIN DECODED_LOSSY :
             Utf8errorResumeFrom(DECODED_LOSSY[i].input)
    \/ /\ last.op = "new"
       /\ \E input \in TestChunks : Utf8errorResumeFrom(input)

PolyfillSpec == Init /\ [][PolyfillNext]_vars

---------------------------------------------------------------------------
(* The byte classifier applied to a byte, or to the first two bytes of a   *)
(* sequence.                                                               *)

Byte == 0 .. 255

\* width(first), is_continuation_byte(second) and the two prefix checks of
\* (first, second), as Decoder::decode and complete call them.
Classify(first, second) ==
    /\ last.op = "new"
    /\ last' = [ op |-> "classify", first |-> first, second |-> second,
                 width |-> width(first),
                 continuation |-> is_continuation_byte(second),
                 three |-> valid_three_bytes_sequence_prefix(first, second),
                 four |-> valid_four_bytes_sequence_prefix(first, second) ]
    /\ UNCHANGED <<decoder, stream, out, repl, dropped, used, buf_read_decoder>>

ClassifierNext ==
    /\ last.op = "new"
    /\ \E first \in Byte : \E second \in Byte : Classify(first, second)

ClassifierSpec == Init /\ [][ClassifierNext]_vars

---------------------------------------------------------------------------
(* Properties of the LossyDecoder (checked under Spec).                    *)

\* The text a new LossyDecoder pushes when fed I as one chunk and dropped.
OneChunk(I) ==
    LET f == feed(NewDecoder, I) IN f.text \o drop(f.decoder)

\* C1: chunk-boundary independence.  Once the decoder is dropped, the text
\* pushed for the chunks fed, whatever the partition of the stream into
\* non-empty chunks, is the text pushed when the whole stream is fed as one
\* chunk to a new decoder which is then dropped.
C1_ChunkIndependence ==
    dropped => out = OneChunk(stream)

\* C1 witness: F0 A0 80 20 was fed with a chunk boundary after the third
\* byte (only then does the decoder hold F0 A0 80 as a discarded sequence),
\* the sequence was refuted by the byte 20 of a later chunk, and the
\* decoder was dropped.
C1_Witness ==
    /\ dropped
    /\ stream = << \hF0, \hA0, \h80, \h20 >>
    /\ decoder = [len |-> 0, first |-> \hF0, second |-> \hA0, third |-> \h80]
    /\ out = REPLACEMENT_CHARACTER \o << \h20 >>

\* C5 as stated: every maximal run of consecutive invalid or incomplete
\* bytes is replaced by exactly one U+FFFD, however many bytes it spans.
C5_OnePerRun ==
    dropped => out = OnePerRun(stream)

\* C5 amended: every ill-formed maximal subpart (the longest beginning of a
\* code point at its place, 1 to 3 bytes, or the single byte that begins
\* none) is replaced by exactly one U+FFFD, so a run of invalid bytes made
\* of k such subparts is replaced by k U+FFFD; well-formed code points are
\* pushed unchanged.
C5_OnePerSubpart ==
    dropped =>
        LET ps == Pieces(stream)
        IN  /\ out = LossyOf(stream, ps)
            /\ repl + (IF last.pushed = REPLACEMENT_CHARACTER THEN 1 ELSE 0)
                 = Subparts(ps)

\* C5 witness: the run F0 80 80 80 of four invalid bytes was fed and the
\* decoder dropped: four U+FFFD were pushed.
C5_Witness ==
    /\ dropped
    /\ stream = << \hF0, \h80, \h80, \h80 >>
    /\ repl = 4
    /\ out = REPLACEMENT_CHARACTER \o REPLACEMENT_CHARACTER
                \o REPLACEMENT_CHARACTER \o REPLACEMENT_CHARACTER

\* s is well-formed but for a last code point that its end may cut short.
BeginsWellFormed(s) ==
    LET ps == Pieces(s)
    IN  \A i \in DOMAIN ps :
            ps[i].char \/ (i = Len(ps) /\ EndsIncomplete(s, ps))

\* C6: round trip of well-formed input across chunks.  While the chunks of a
\* well-formed stream are fed, feed pushes no U+FFFD (no decode call returns
\* Error) and the text pushed, followed by the pending bytes, is the stream
\* fed so far; once a well-formed stream is fed and the decoder dropped, the
\* text pushed is byte for byte the stream and drop pushed nothing.
C6_RoundTrip ==
    /\ (~dropped /\ BeginsWellFormed(stream)) =>
          /\ repl = 0
          /\ out \o PendingBytes(decoder) = stream
    /\ (dropped /\ WellFormed(stream)) =>
          /\ repl = 0
          /\ out = stream
          /\ last.pushed = <<>>

\* C6 witness: the 4-byte code point F0 A0 80 80 was fed with a chunk
\* boundary after its third byte (the decoder still shows the three bytes
\* it held), was put back together and pushed, and the decoder was dropped.
C6_Witness ==
    /\ dropped
    /\ stream = << \hF0, \hA0, \h80, \h80 >>
    /\ decoder = [len |-> 0, first |-> \hF0, second |-> \hA0, third |-> \h80]
    /\ out = stream
    /\ repl = 0

\* C8: truncated stream.  Drop pushes exactly one U+FFFD when the stream fed
\* ends inside a code point that is still incomplete and nothing otherwise;
\* before the drop, feed has pushed one U+FFFD for each ill-formed subpart
\* of the stream except that incomplete last one, which it keeps pending.
C8_TruncatedStream ==
    LET ps == Pieces(stream)
        cut == EndsIncomplete(stream, ps)
    IN  /\ last.op = "drop" =>
              last.pushed = (IF cut THEN REPLACEMENT_CHARACTER ELSE <<>>)
        /\ ~dropped =>
              /\ has_incomplete_sequence(decoder) <=> cut
              /\ repl = Subparts(ps) - (IF cut THEN 1 ELSE 0)

\* C8 witness: the stream 20 F0 A0 ended inside a 4-byte code point; feed
\* pushed the byte 20 only, and drop pushed the one U+FFFD.
C8_Witness ==
    /\ last.op = "drop"
    /\ stream = << \h20, \hF0, \hA0 >>
    /\ repl = 0
    /\ last.pushed = REPLACEMENT_CHARACTER
    /\ out = << \h20 >> \o REPLACEMENT_CHARACTER

---------------------------------------------------------------------------
(* Properties of Decoder::decode (checked under DecodeSpec).               *)

\* The call before the state was the first decode call of a new Decoder.
FirstCall == last.op = "decode" /\ last.prev = "none"

\* C2: strict validity.  decode on a new Decoder returns Ok with the whole
\* input as its &str exactly when the input is well-formed by the RFC 3629
\* syntax; overlong forms, surrogates ED A0..BF xx and encodings above
\* U+10FFFF (F4 90.. and above) never give Ok, and the well-formed byte
\* strings of test_is_utf8 do.
C2_StrictValidity ==
    FirstCall =>
        LET c == last.chunk
        IN  /\ (last.kind = "Ok" /\ last.s = c) <=> WellFormed(c)
            /\ last.kind = "Ok" => last.s = c
            /\ c \in NOT_UTF8 => last.kind # "Ok"
            /\ c \in IS_UTF8 => last.kind = "Ok"
            /\ c = << \hF0, \h80, \h80, \h80 >> => last.kind # "Ok"
            /\ (Len(c) = 3 /\ c[1] = \hED /\ c[2] \in \hA0 .. \hBF)
                  => last.kind # "Ok"
            /\ (Len(c) = 4 /\ (c[1] > \hF4 \/ (c[1] = \hF4 /\ c[2] >= \h90)))
                  => last.kind # "Ok"

\* C2 witness: F4 90 80 80, which would encode U+110000, was given to a new
\* Decoder and refused, with nothing of it in the valid prefix.
C2_Witness ==
    /\ FirstCall
    /\ last.chunk = << \hF4, \h90, \h80, \h80 >>
    /\ last.kind = "Error"
    /\ last.s = <<>>

\* The call l returned an Error found by the scan of decode (not by the
\* completion of a pending sequence).
ScanErrorCall(l) ==
    /\ l.op = "decode"
    /\ l.kind = "Error"
    /\ (l.before.len = 0 \/ l.ch # <<>>)

\* The maximal-subpart rule for the call l.
C3_Rule(l) ==
    ScanErrorCall(l) =>
        LET at == l.consumed + Len(l.s)           \* the offset of the lead
            rest == Suffix(l.chunk, at)
            lead == rest[1]
            span == l.rem_at - at                 \* the invalid span skipped
            w == width(lead)
        IN  /\ span \in 1 .. 3
            /\ l.remaining = Suffix(l.chunk, at + span)
            /\ span = IF w = 0 THEN 1
                      ELSE IF ~valid_second(w, lead, rest[2]) THEN 1
                      ELSE IF ~is_continuation_byte(rest[3]) THEN 2
                      ELSE 3
            /\ w = 0 => ~IsCharPrefix(<<lead>>) /\ ~UTF8_char(<<lead>>)
            \* the breaking byte is the first byte of the remaining input
            /\ w # 0 =>
                  /\ IsCharPrefix(Prefix(rest, span))
                  /\ Len(rest) > span
                  /\ ~IsCharPrefix(Prefix(rest, span + 1))
                  /\ ~UTF8_char(Prefix(rest, span + 1))
                  /\ Head(l.remaining) = rest[span + 1]

\* C3: the maximal-subpart rule.  Every Error of the scan skips exactly the
\* bytes that passed their checks: 1 byte for a lead of width 0 or a lead
\* whose second byte fails, 2 when the third byte is no continuation byte,
\* 3 when the fourth is not, and remaining_input_after_error begins at the
\* byte that broke the pattern.  For E6 83 20 given to a new Decoder one
\* Error of length 2 is reported, and the call that resumes with the
\* remaining input decodes the byte 20.
C3_MaximalSubpart ==
    [][ /\ C3_Rule(last')
        /\ (last'.op = "decode" /\ last'.prev = "none"
              /\ last'.chunk = << \hE6, \h83, \h20 >>)
              => /\ last'.kind = "Error"
                 /\ last'.s = <<>>
                 /\ last'.rem_at = 2
                 /\ last'.remaining = << \h20 >>
        /\ (FirstCall /\ last.chunk = << \hE6, \h83, \h20 >> /\ last'.resumed)
              => /\ last'.chunk = << \h20 >>
                 /\ last'.ch = <<>>
                 /\ last'.s = << \h20 >>
                 /\ last'.kind = "Ok" ]_vars

\* C3 witness: E6 83 20 was given to a new Decoder: an Error whose invalid
\* span is E6 83 and whose remaining input is the byte 20.
C3_Witness ==
    /\ FirstCall
    /\ last.chunk = << \hE6, \h83, \h20 >>
    /\ last.kind = "Error"
    /\ last.rem_at - (last.consumed + Len(last.s)) = 2
    /\ last.remaining = << \h20 >>

\* C7: with no pending sequence, the &str decode returns is the longest
\* well-formed prefix of the chunk: a prefix, well-formed, and no longer
\* prefix of the chunk is well-formed (so its length is the valid_up_to of
\* strict decoding); with Ok it is the whole chunk.
C7_LongestValidPrefix ==
    (last.op = "decode" /\ last.before.len = 0) =>
        /\ last.consumed = 0
        /\ IsPrefix(last.s, last.chunk)
        /\ WellFormed(last.s)
        /\ \A k \in Len(last.s) + 1 .. Len(last.chunk) :
              ~WellFormed(Prefix(last.chunk, k))
        /\ last.kind = "Ok" => last.s = last.chunk
        /\ last.kind # "Ok" => Len(last.s) < Len(last.chunk)

\* C7 witness: a Decoder that had held a sequence before, and holds none,
\* was given C2 80 E0 A0: the valid prefix is C2 80, before the cut E0 A0.
C7_Witness ==
    /\ last.op = "decode"
    /\ last.before.len = 0
    /\ last.before.first # 0
    /\ last.chunk = << \hC2, \h80, \hE0 >>
    /\ last.s = << \hC2, \h80 >>
    /\ last.kind = "Incomplete"

\* C9: has_incomplete_sequence() is true exactly when the most recent
\* decode call returned Incomplete: false on a new Decoder and after every
\* call that returned Ok or Error.
C9_HasIncompleteSequence ==
    has_incomplete_sequence(decoder)
        <=> (last.op = "decode" /\ last.kind = "Incomplete")

\* C9 witness: a pending sequence was refuted by the chunk of the next call,
\* which returned Error: the Decoder holds no sequence any more.
C9_Witness ==
    /\ last.op = "decode"
    /\ last.before.len = 2
    /\ last.kind = "Error"
    /\ last.ch = <<>>
    /\ ~has_incomplete_sequence(decoder)

\* C10: the InlineString is non-empty only when the call before returned
\* Incomplete; it is then one well-formed code point of 2 to 4 bytes, the
\* pending bytes followed by the first bytes of the chunk, and the returned
\* &str starts right after those bytes of the chunk.
C10_Reconstituted ==
    (last.op = "decode" /\ last.ch # <<>>) =>
        /\ last.prev = "Incomplete"
        /\ Len(last.ch) \in 2 .. 4
        /\ UTF8_char(last.ch)
        /\ last.consumed \in 1 .. 3
        /\ last.consumed <= Len(last.chunk)
        /\ last.ch = PendingBytes(last.before) \o Prefix(last.chunk, last.consumed)
        /\ Len(last.s) <= Len(last.chunk) - last.consumed
        /\ last.s = SubSeq(last.chunk, last.consumed + 1,
                           last.consumed + Len(last.s))

\* C10 witness: E0 was pending and the chunk A0 80 20 came: the InlineString
\* is E0 A0 80 and the &str is the byte 20 that follows the two bytes used.
C10_Witness ==
    /\ last.op = "decode"
    /\ PendingBytes(last.before) = << \hE0 >>
    /\ last.chunk = << \hA0, \h80, \h20 >>
    /\ last.ch = << \hE0, \hA0, \h80 >>
    /\ last.consumed = 2
    /\ last.s = << \h20 >>

\* C15: the ASCII fast path.  For an input made only of bytes below 0x80
\* given as one chunk to a new Decoder, decode returns the whole input as
\* its &str with Result::Ok, an empty InlineString and no error, and nothing
\* is left pending.
C15_AsciiFastPath ==
    (FirstCall /\ \A i \in DOMAIN last.chunk : last.chunk[i] < 128) =>
        /\ last.kind = "Ok"
        /\ last.s = last.chunk
        /\ last.ch = <<>>
        /\ last.consumed = 0
        /\ last.remaining = <<>>
        /\ decoder = NewDecoder

\* C15 witness: the four ASCII bytes 41 00 7F 41 were given to a new
\* Decoder and returned whole.
C15_Witness ==
    /\ FirstCall
    /\ last.chunk = << \h41, \h00, \h7F, \h41 >>
    /\ last.s = last.chunk
    /\ last.kind = "Ok"

\* The number of leading bytes of chunk that continue the pending bytes
\* pend: the most bytes, up to those the code point still needs, with which
\* pend is still the beginning of a UTF8-char, or a whole one.
Passing(pend, chunk, need) ==
    LET fits(j) == LET q == pend \o Prefix(chunk, j)
                   IN  IsCharPrefix(q) \/ UTF8_char(q)
        js == { j \in 0 .. Min(need, Len(chunk)) : \A i \in 0 .. j : fits(i) }
    IN  CHOOSE j \in js : \A i \in js : i <= j

\* C16: IncompleteSequence::complete with a pending sequence.  When a byte
\* of the new chunk fails the check of its position, the pending state is
\* reset to empty and Result::Error is returned with
\* remaining_input_after_error starting at that byte: only the bytes that
\* passed were consumed, and when none did the remaining input is the whole
\* chunk.  When the chunk runs out first, the bytes that passed are kept, len
\* grows by their number and Result::Incomplete is returned.  When all the
\* missing bytes pass, the state is reset to empty.
C16_Complete ==
    (last.op = "decode" /\ last.before.len > 0) =>
        LET self == last.before
            chunk == last.chunk
            pend == PendingBytes(self)
            need == width(self.first) - self.len
            k == Passing(pend, chunk, need)
            c == complete(self, chunk)
        IN  /\ (k < need /\ k < Len(chunk)) =>
                  /\ ~c.ok /\ c.kind = "Error"
                  /\ c.seq.len = 0
                  /\ c.position = k
                  /\ last.kind = "Error"
                  /\ last.ch = <<>> /\ last.s = <<>>
                  /\ last.consumed = k
                  /\ last.remaining = Suffix(chunk, k)
                  /\ Head(last.remaining) = chunk[k + 1]
                  /\ k = 0 => last.remaining = chunk
                  /\ decoder.len = 0
            /\ (k < need /\ k = Len(chunk)) =>
                  /\ ~c.ok /\ c.kind = "Incomplete"
                  /\ c.seq.len = self.len + k
                  /\ PendingBytes(c.seq) = pend \o chunk
                  /\ last.kind = "Incomplete"
                  /\ last.ch = <<>> /\ last.s = <<>>
                  /\ decoder = c.seq
            /\ k = need =>
                  /\ c.ok
                  /\ c.seq.len = 0
                  /\ c.position = need
                  /\ c.ch = pend \o Prefix(chunk, need)
                  /\ last.ch = c.ch
                  /\ last.consumed = need
                  /\ decoder.len > 0 =>
                        /\ last.kind = "Incomplete"
                        /\ IsPrefix(PendingBytes(decoder),
                                    Suffix(chunk, need + Len(last.s)))

\* C16 witness: F0 was pending and the chunk A0 20 came: A0 passed, 20 did
\* not, and the remaining input after the error is the byte 20.
C16_Witness ==
    /\ last.op = "decode"
    /\ PendingBytes(last.before) = << \hF0 >>
    /\ last.chunk = << \hA0, \h20 >>
    /\ last.kind = "Error"
    /\ last.consumed = 1
    /\ last.remaining = << \h20 >>
    /\ decoder.len = 0

\* The scan of decode ran in the call l: nothing was pending, or the
\* pending sequence was completed.
ScanRan(l) == l.before.len = 0 \/ l.ch # <<>>

\* C19: byte accounting of Decoder::decode.  In every call the chunk is the
\* bytes consumed to complete or refute the pending sequence, then the
\* returned &str, then the skipped invalid span of 1 to 3 bytes or the 1 to
\* 3 bytes stored as the new pending sequence or nothing, then
\* remaining_input_after_error.  On Incomplete the stored bytes are the
\* bytes of the chunk after the valid prefix.  No byte is dropped or
\* delivered twice.
C19_ByteAccounting ==
    last.op = "decode" =>
        LET chunk == last.chunk
            used_up == last.consumed
            valid_end == used_up + Len(last.s)
            span == IF last.kind = "Error" /\ ScanRan(last)
                    THEN SubSeq(chunk, valid_end + 1, last.rem_at)
                    ELSE <<>>
            stored == IF last.kind = "Incomplete" /\ ScanRan(last)
                      THEN PendingBytes(decoder)
                      ELSE <<>>
        IN  /\ chunk = Prefix(chunk, used_up) \o last.s \o span \o stored
                          \o last.remaining
            /\ last.ch # <<>> =>
                  last.ch = PendingBytes(last.before) \o Prefix(chunk, used_up)
            /\ (last.ch = <<>> /\ last.before.len > 0) =>
                  /\ last.s = <<>>
                  /\ last.kind \in {"Error", "Incomplete"}
                  /\ last.kind = "Incomplete" =>
                        /\ used_up = Len(chunk)
                        /\ PendingBytes(decoder)
                              = PendingBytes(last.before) \o chunk
                  /\ last.kind = "Error" => decoder.len = 0
            /\ last.before.len = 0 => used_up = 0
            /\ (last.kind = "Error" /\ ScanRan(last)) => Len(span) \in 1 .. 3
            /\ (last.kind = "Incomplete" /\ ScanRan(last)) =>
                  /\ Len(stored) \in 1 .. 3
                  /\ stored = Suffix(chunk, valid_end)
            /\ last.kind = "Ok" => valid_end = Len(chunk) /\ decoder.len = 0
            /\ last.kind # "Error" => last.remaining = <<>>

\* C19 witness: C2 was pending and the chunk 80 20 F4 came: 80 completes
\* the code point, 20 is the valid text and F4 is stored as pending.
C19_Witness ==
    /\ last.op = "decode"
    /\ PendingBytes(last.before) = << \hC2 >>
    /\ last.chunk = << \h80, \h20, \hF4 >>
    /\ last.ch = << \hC2, \h80 >>
    /\ last.consumed = 1
    /\ last.s = << \h20 >>
    /\ last.kind = "Incomplete"
    /\ PendingBytes(decoder) = << \hF4 >>

\* The call l left pending the sequence that was pending before it.
StillPending(l) ==
    /\ l.before.len > 0
    /\ l.kind = "Incomplete"
    /\ l.ch = <<>>

\* The call l resolved the sequence that was pending before it: returned it
\* as a reconstituted code point, or reported it as an Error.
Resolved(l) ==
    /\ l.before.len > 0
    /\ \/ l.ch # <<>>
       \/ l.kind = "Error" /\ l.ch = <<>>

\* C20: bounded resolution of a pending sequence.  The Decoder never holds
\* more than 3 pending bytes; a sequence left pending by an Incomplete is
\* returned as a reconstituted code point or reported as an Error by the
\* time at most 3 further input bytes have been supplied, in whatever
\* chunks; until then each call returns Incomplete with an empty
\* InlineString and an empty &str.
C20_BoundedResolution ==
    /\ decoder.len <= 3
    /\ last.op = "decode" =>
          /\ decoder.len > 0 => last.kind = "Incomplete"
          /\ last.before.len > 0 =>
                /\ StillPending(last) \/ Resolved(last)
                /\ ~(StillPending(last) /\ Resolved(last))
                /\ StillPending(last) =>
                      /\ last.s = <<>>
                      /\ last.since = last.waited + Len(last.chunk)
                      /\ last.since <= 2
                      /\ PendingBytes(decoder)
                            = PendingBytes(last.before) \o last.chunk
                /\ Resolved(last) =>
                      \* the bytes supplied up to and with the byte that
                      \* completed or refuted the sequence
                      /\ last.waited + last.consumed
                            + (IF last.ch = <<>> THEN 1 ELSE 0) <= 3
                      /\ last.since = 0
                /\ Len(last.chunk) >= 3 - last.waited => Resolved(last)

\* C20 witness: the lead F0 was left pending, then two calls supplied A0
\* and 80 and returned Incomplete, and the third byte 80 resolved it.
C20_Witness ==
    /\ last.op = "decode"
    /\ PendingBytes(last.before) = << \hF0, \hA0, \h80 >>
    /\ last.waited = 2
    /\ last.chunk = << \h80 >>
    /\ last.ch = << \hF0, \hA0, \h80, \h80 >>
    /\ last.kind = "Ok"
    /\ decoder.len = 0

\* C12: the Decoder never panics on malformed input.  In every decode call,
\* whatever the chunks given so far, every slice index is within the chunk
\* and every debug_assert of decode and of complete holds: 0 < len < width
\* <= 4 on entry with a pending sequence, new_len < 4 when more input is
\* needed, width = 4 in the default arm of the match on width.
C12_NeverPanics ==
    last.op = "decode" =>
        /\ ~last.panic
        /\ last.kind \in {"Ok", "Incomplete", "Error"}
        /\ last.consumed + Len(last.s) <= Len(last.chunk)
        /\ last.rem_at <= Len(last.chunk)
        /\ last.before.len > 0 =>
              LET w == width(last.before.first)
              IN  /\ 0 < last.before.len /\ last.before.len < w /\ w <= 4
                  /\ (last.kind = "Incomplete" /\ last.ch = <<>>)
                        => last.before.len + Len(last.chunk) < 4
                  /\ w \in {2, 3, 4}

\* C12 witness: F0 A0 80 was pending and an ill-formed chunk came: complete
\* ran its assertions, refused the chunk's first byte and sliced the input
\* there.
C12_Witness ==
    /\ last.op = "decode"
    /\ PendingBytes(last.before) = << \hF0, \hA0, \h80 >>
    /\ last.chunk = << \hF4 >>
    /\ last.kind = "Error"
    /\ last.rem_at = 0
    /\ ~last.panic

\* C13: the pending-sequence invariant.  Between calls, if
\* incomplete_sequence.len > 0 then len < width(first) <= 4 and the stored
\* bytes first..(len) are a proper non-empty prefix of a well-formed code
\* point: first has width 2, 3 or 4, second (if len >= 2) passed the
\* second-byte check for first, third (if len = 3) is a continuation byte.
C13_PendingInvariant ==
    decoder.len > 0 =>
        LET w == width(decoder.first)
        IN  /\ decoder.len < w
            /\ w <= 4
            /\ w \in {2, 3, 4}
            /\ IsCharPrefix(PendingBytes(decoder))
            /\ decoder.len >= 2 =>
                  valid_second(w, decoder.first, decoder.second)
            /\ decoder.len = 3 => is_continuation_byte(decoder.third)

\* C13 witness: three bytes are pending, the last two added one call each to
\* the lead F0 that was pending before.
C13_Witness ==
    /\ last.op = "decode"
    /\ last.kind = "Incomplete"
    /\ PendingBytes(last.before) = << \hF0, \hA0 >>
    /\ PendingBytes(decoder) = << \hF0, \hA0, \h80 >>

---------------------------------------------------------------------------
(* Properties of string_from_utf8_lossy (checked under LossySpec).         *)

U_FFFD == REPLACEMENT_CHARACTER

\* C4: the single-chunk lossy decoding built on Decoder::decode returns the
\* text String::from_utf8_lossy returns: the well-formed code points
\* unchanged and one U+FFFD for each ill-formed maximal subpart; on the
\* inputs of the tests it returns the expected texts, and no call returns a
\* reconstituted code point.
C4_SingleChunkLossy ==
    last.op = "string_from_utf8_lossy" =>
        /\ out = from_utf8_lossy(stream)
        /\ last.asserted
        /\ \A i \in DOMAIN DECODED_LOSSY :
              stream = DECODED_LOSSY[i].input => out = DECODED_LOSSY[i].expected
        /\ stream = << \hC0, \h80 >> => out = U_FFFD \o U_FFFD
        /\ stream = << \hE6, \h83 >> => out = U_FFFD
        /\ stream = << \hF0, \h80, \h80, \h80 >>
              => out = U_FFFD \o U_FFFD \o U_FFFD \o U_FFFD
        /\ stream = << \hED, \hA0, \h80 >> => out = U_FFFD \o U_FFFD \o U_FFFD
        /\ stream = << \hF0, \h90, \h80 >> => out = U_FFFD

\* C4 witness: the truncated F0 90 80 followed by nothing was decoded to one
\* U+FFFD.
C4_Witness ==
    /\ last.op = "string_from_utf8_lossy"
    /\ stream = << \hF0, \h90, \h80 >>
    /\ out = U_FFFD

---------------------------------------------------------------------------
(* Properties of the calls of LossyDecoder (checked under FeedSpec).       *)

\* C11: every call of LossyDecoder::feed invokes the callback once or more,
\* for every input chunk and every decoder state.  (The documentation of
\* feed says so; feed of an empty chunk, or of a chunk that only begins or
\* continues a sequence, invokes it not at all.)
C11_CallbackOnceOrMore ==
    last.op = "feed_call" => last.pushes >= 1

C21_FeedTerminates ==
    last.op = "feed_call" =>
        /\ last.kind \in {"Ok", "Incomplete"}
        /\ last.scan_stalls = 0
        /\ last.stalls <= 1
        /\ last.stalls = 1 => last.before.len > 0
        /\ last.calls <= Len(last.chunk) + 2
        /\ last.errors <= Len(last.chunk) + 1

\* C21 witness: 80 80 was fed while E0 was pending.  The first decode call
\* discarded E0 with all of 80 80 remaining, two more each skipped one 80,
\* and the fourth found the input empty: len(chunk) + 2 calls.
C21_Witness ==
    /\ last.op = "feed_call"
    /\ PendingBytes(last.before) = << \hE0 >>
    /\ last.chunk = << \h80, \h80 >>
    /\ last.stalls = 1
    /\ last.errors = 3
    /\ last.calls = Len(last.chunk) + 2
    /\ last.kind = "Ok"

---------------------------------------------------------------------------
(* Properties of BufReadDecoder (checked under ReadSpec).                  *)

\* C22: BufReadDecoder::next at the end of the stream.  It returns Ok(None)
\* only when the buffer fill_buf returned is empty and no incomplete
\* sequence is held.  When fill_buf returns an empty buffer while an
\* incomplete sequence is held, next returns one Err(BufReadDecoderError)
\* whose invalid_sequence is the bytes held, and holds nothing after it; the
\* call that follows it returns Ok(None) (unless the reader fails).
C22_EndOfStream ==
    last.op = "next" =>
        /\ last.outcome = "none" =>
              /\ last.buf = <<>>
              /\ last.held = <<>>
              /\ buf_read_decoder.incomplete = <<>>
        /\ (last.outcome # "io_error" /\ last.buf = <<>> /\ last.held # <<>>) =>
              /\ last.outcome = "item"
              /\ ~last.ok
              /\ last.bytes = last.held
              /\ Len(out) = last.items + 1
              /\ buf_read_decoder.incomplete = <<>>
              /\ buf_read_decoder.bytes_consumed = 0
        /\ ( /\ last.starts
             /\ last.prior.outcome = "item"
             /\ last.prior.source = "Incomplete"
             /\ last.prior.eof
             /\ last.outcome # "io_error" ) =>
              /\ last.outcome = "none"
              /\ Len(out) = last.items

\* C22 witness: the reader presented 20 E0 A0 and then its end.  next
\* returned the Err of E0 A0 at the end of the stream, and the call after it
\* returned Ok(None).
C22_Witness ==
    /\ last.op = "next"
    /\ last.starts
    /\ last.outcome = "none"
    /\ last.prior.outcome = "item"
    /\ last.prior.source = "Incomplete"
    /\ last.prior.eof
    /\ stream = << \h20, \hE0, \hA0 >>
    /\ out = << [ok |-> TRUE, bytes |-> << \h20 >>],
                [ok |-> FALSE, bytes |-> << \hE0, \hA0 >>] >>

RECURSIVE ItemBytes(_)
ItemBytes(items) ==
    IF items = <<>> THEN <<>>
    ELSE Head(items).bytes \o ItemBytes(Tail(items))

\* C24: byte accounting of BufReadDecoder.  On a reader that returns no I/O
\* error, whatever the sizes of the buffers fill_buf presents: every item
\* next returned, Ok(str) or error, has one byte or more; the bytes of the
\* items returned so far, followed by the bytes of the incomplete sequence
\* held, are the bytes of the stream the decoder has taken from the reader,
\* in order; and when next returns Ok(None) the bytes of all items are the
\* reader's byte stream.
C24_ReadAccounting ==
    (last.op = "next" /\ buf_read_decoder.buf_read.errors = 0) =>
        /\ \A i \in DOMAIN out : out[i].bytes # <<>>
        /\ ItemBytes(out) \o buf_read_decoder.incomplete
              = Prefix(stream, buf_read_decoder.buf_read.consumed
                                  + buf_read_decoder.bytes_consumed)
        /\ last.outcome = "none" => ItemBytes(out) = stream

\* C24 witness: the reader presented F0, then A0 80, then 80 and its end;
\* the code point put together across the three buffers was returned as
\* one str, and then Ok(None).
C24_Witness ==
    /\ last.op = "next"
    /\ last.outcome = "none"
    /\ buf_read_decoder.buf_read.errors = 0
    /\ stream = << \hF0, \hA0, \h80, \h80 >>
    /\ out = << [ok |-> TRUE, bytes |-> << \hF0, \hA0, \h80, \h80 >>] >>

---------------------------------------------------------------------------
(* Properties of based_on_std.rs (checked under StdSpec).                  *)

\* C17: based_on_std::decode follows the maximal-subpart rule.  When it
\* returns Error(valid, InvalidSequence(invalid), rest), invalid is the lead
\* byte and the following bytes that passed the check of their position,
\* and rest begins at the first byte that broke the pattern; for
\* "Hello" C2 20 "There" the invalid sequence is C2 alone and rest starts
\* with the space.
C17_StdMaximalSubpart ==
    (last.op = "based_on_std_decode" /\ last.kind = "Error") =>
        LET after_valid == Suffix(last.input, Len(last.valid))
            subpart == Pieces(after_valid)[1].len
        IN  /\ last.invalid = Prefix(after_valid, subpart)
            /\ last.rest = Suffix(after_valid, subpart)
            /\ last.input = DECODED_LOSSY[4].input =>
                  /\ last.invalid = << \hC2 >>
                  /\ Head(last.rest) = \h20

\* C18: try_complete resumes as a single-chunk scan would.  When a byte of
\* the new input fails the check of its position, the invalid sequence of
\* the Error is the bytes buffered before that byte and the remaining input
\* begins with the failing byte, so the bytes reported invalid are those
\* decode reports for the stream given as one chunk.
C18_TryCompleteResumes ==
    (last.op = "try_complete" /\ last.kind = "Error") =>
        LET pend == Prefix(last.before.buffer, last.before.buffer_len)
            need == last.before.char_width - last.before.buffer_len
            k == Passing(pend, last.input, need)
            one == based_on_std_decode(stream)
        IN  /\ last.invalid = pend \o Prefix(last.input, k)
            /\ last.rest = Suffix(last.input, k)
            /\ last.rest # <<>>
            /\ Head(last.rest) = last.input[k + 1]
            /\ one.kind = "Error"
            /\ one.invalid = last.invalid
            /\ one.rest = last.rest

---------------------------------------------------------------------------
(* Properties of polyfill.rs (checked under PolyfillSpec).                 *)

\* C25: utf8error_resume_from agrees with Decoder::decode.  For an input on
\* which str::from_utf8 fails, it panics on no debug_assert, it returns None
\* exactly when the decode of that input by a new Decoder returns
\* Result::Incomplete, and otherwise it returns Some(k) where k is
\* valid_up_to plus the length of the invalid span, 1, 2 or 3, and is the
\* offset in the input at which decode's remaining_input_after_error
\* begins, decode's &str being the first valid_up_to bytes.
C25_PolyfillAgrees ==
    last.op = "utf8error_resume_from" =>
        LET d == decode(NewDecoder, last.input)
        IN  /\ ~last.panic
            /\ d.kind \in {"Incomplete", "Error"}
            /\ ~last.some <=> d.kind = "Incomplete"
            /\ Len(d.s) = last.valid_up_to
            /\ last.some =>
                  /\ last.resume - last.valid_up_to \in 1 .. 3
                  /\ last.resume = d.rem_at
                  /\ d.remaining = Suffix(last.input, last.resume)
                  /\ last.resume - last.valid_up_to
                        = Pieces(Suffix(last.input, last.valid_up_to))[1].len

\* C25 witness: for 20 F1 80 80 C1 20 the valid prefix is one byte and the
\* invalid span F1 80 80 three: Some(4), where decode's remaining input C1 20
\* begins.
C25_Witness ==
    /\ last.op = "utf8error_resume_from"
    /\ last.input = << \h20, \hF1, \h80, \h80, \hC1, \h20 >>
    /\ last.valid_up_to = 1
    /\ last.some
    /\ last.resume = 4
    /\ decode(NewDecoder, last.input).remaining = << \hC1, \h20 >>

\* C26: the call protocol of IncompleteChar::try_complete.  On an
\* IncompleteChar that decode produced, or that try_complete left with
\* StillIncomplete, a call does not panic, and if it returns
\* StillIncomplete it leaves 0 < buffer_len < char_width.  A call that
\* returns Ok leaves buffer_len = char_width, the buffer being the one
\* well-formed code point it returns; a call that returns Error leaves
\* char_width = 0xFF; and every call made after Ok or Error panics.
C26_TryCompleteProtocol ==
    last.op = "try_complete" =>
        /\ last.prev \in {"Incomplete", "StillIncomplete"} =>
              /\ last.kind \in {"StillIncomplete", "Ok", "Error"}
              /\ ~last.panic
        /\ last.kind = "StillIncomplete" =>
              /\ 0 < last.ic.buffer_len
              /\ last.ic.buffer_len < last.ic.char_width
              /\ last.ic.char_width = UTF8_CHAR_WIDTH[last.ic.buffer[1] + 1]
        /\ last.kind = "Ok" =>
              /\ last.ic.buffer_len = last.ic.char_width
              /\ last.code_point = Prefix(last.ic.buffer, last.ic.buffer_len)
              /\ UTF8_char(last.code_point)
        /\ last.kind = "Error" => last.ic.char_width = 255
        /\ last.prev \in {"Ok", "Error"} =>
              (last.kind = "Panic" /\ last.panic)

\* C26 witness: F0 was left by decode; try_complete returned
\* StillIncomplete for A0 and again for 80, Ok with the code point
\* F0 A0 80 80 for 80, and panicked when it was called once more.
C26_Witness ==
    /\ last.op = "try_complete"
    /\ last.prev = "Ok"
    /\ last.stills = 2
    /\ last.before.buffer = << \hF0, \hA0, \h80, \h80 >>
    /\ last.before.buffer_len = 4
    /\ last.before.char_width = 4
    /\ last.kind = "Panic"

\* C27: based_on_std::decode never panics, str::from_utf8 reporting the
\* length of the longest well-formed prefix.  When the input is not
\* well-formed, the byte at valid_up_to is not ASCII, the debug_assert of
\* the arm taken holds and neither panic!() nor unreachable!() is met;
\* the invalid sequence and the rest are the bytes after the valid prefix,
\* split at an offset within them; and when Incomplete is returned the
\* bytes after the valid prefix are exactly the buffer_len bytes of the
\* buffer, with 0 < buffer_len < char_width.
C27_StdDecodeNeverPanics ==
    last.op = "based_on_std_decode" =>
        LET after_valid == Suffix(last.input, Len(last.valid))
        IN  /\ ~last.panic
            /\ last.kind \in {"Ok", "Error", "Incomplete"}
            /\ last.valid = Prefix(last.input, valid_up_to(last.input))
            /\ last.kind = "Ok" => last.valid = last.input
            /\ last.kind # "Ok" =>
                  /\ after_valid # <<>>
                  /\ after_valid[1] >= 128
            /\ last.kind = "Error" =>
                  /\ Len(last.invalid) \in 1 .. Len(after_valid)
                  /\ last.invalid \o last.rest = after_valid
            /\ last.kind = "Incomplete" =>
                  /\ Len(after_valid) = last.ic.buffer_len
                  /\ Prefix(last.ic.buffer, last.ic.buffer_len) = after_valid
                  /\ 0 < last.ic.buffer_len
                  /\ last.ic.buffer_len < last.ic.char_width
                  /\ last.ic.char_width = UTF8_CHAR_WIDTH[after_valid[1] + 1]

\* C27 witness: decode of 20 F0 A0 80 returned Incomplete after the valid
\* prefix 20, with the three bytes F0 A0 80 in a buffer of char_width 4.
C27_Witness ==
    /\ last.op = "based_on_std_decode"
    /\ last.input = << \h20, \hF0, \hA0, \h80 >>
    /\ last.kind = "Incomplete"
    /\ last.valid = << \h20 >>
    /\ last.ic.buffer_len = 3
    /\ last.ic.char_width = 4
    /\ ~last.panic

---------------------------------------------------------------------------
(* Properties of the byte classifier (checked under ClassifierSpec).       *)

\* Some UTF8-char of n bytes of the RFC 3629 syntax begins with first,
\* second.
BeginsCharOf(n, first, second) ==
    \E alt \in UTF8_char_syntax :
        Len(alt) = n /\ first \in alt[1] /\ second \in alt[2]

\* C28: the byte classifier is the RFC 3629 syntax.  width(b) is 1 for
\* 00..7F, 2 for C2..DF, 3 for E0..EF, 4 for F0..F4 and 0 for 80..BF, C0, C1
\* and F5..FF, which is the length of the UTF8-chars that begin with b, or 0
\* when none does; valid_three_bytes_sequence_prefix and
\* valid_four_bytes_sequence_prefix accept (first, second) exactly when a
\* UTF8-char of 3, or of 4, bytes begins with them (E0 needs A0..BF, ED
\* 80..9F, F0 90..BF, F4 80..8F, the other leads 80..BF);
\* is_continuation_byte is true exactly of 80..BF.
C28_ClassifierIsGrammar ==
    last.op = "classify" =>
        LET b == last.first
            c == last.second
        IN  /\ last.width = ( CASE b \in \h00 .. \h7F -> 1
                                [] b \in \hC2 .. \hDF -> 2
                                [] b \in \hE0 .. \hEF -> 3
                                [] b \in \hF0 .. \hF4 -> 4
                                [] OTHER -> 0 )
            /\ last.width = 0 <=>
                  (b \in \h80 .. \hBF \/ b \in {\hC0, \hC1} \/ b \in \hF5 .. \hFF)
            /\ \A alt \in UTF8_char_syntax :
                  b \in alt[1] => last.width = Len(alt)
            /\ last.width = 0 <=> \A alt \in UTF8_char_syntax : b \notin alt[1]
            /\ last.three <=> BeginsCharOf(3, b, c)
            /\ last.four <=> BeginsCharOf(4, b, c)
            /\ last.three <=>
                  \/ b = \hE0 /\ c \in \hA0 .. \hBF
                  \/ b = \hED /\ c \in \h80 .. \h9F
                  \/ b \in (\hE1 .. \hEF) \ {\hED} /\ c \in \h80 .. \hBF
            /\ last.four <=>
                  \/ b = \hF0 /\ c \in \h90 .. \hBF
                  \/ b = \hF4 /\ c \in \h80 .. \h8F
                  \/ b \in \hF1 .. \hF3 /\ c \in \h80 .. \hBF
            /\ last.continuation <=> c \in \h80 .. \hBF

\* C28 witness: F4 is a lead of width 4 and 90, a continuation byte, is
\* refused as its second byte (it would begin a code point above U+10FFFF).
C28_Witness ==
    /\ last.op = "classify"
    /\ last.first = \hF4
    /\ last.second = \h90
    /\ last.width = 4
    /\ last.continuation
    /\ ~last.four
    /\ ~last.three

===========================================================================
